---- MODULE Spec2Model ----
(***************************************************************************)
(* A model of the job-search agent: the LangGraph-style agents             *)
(* (src/src/agents: ManagerAgent and the five stage agents working on one  *)
(* workflow-state dict) and the Apify actor workflow (src/src/main.py:     *)
(* JobSearchWorkflow).                                                     *)
(*                                                                         *)
(* Conventions.                                                            *)
(*  - A Python str is a sequence of symbols (Str); "in", ==, lower(),      *)
(*    split() and strip() are computed on the symbols.                     *)
(*  - A Python dict with optional keys is a TLA+ function whose DOMAIN is  *)
(*    the set of keys present; d.get(k, default) is Get(d, k, default).    *)
(*  - A float in [0,1] (a sub-score or a weight) is an integer number of   *)
(*    thousandths (Milli); a total_score on the 0..100 scale is an integer *)
(*    number of hundredths of a point (so 100.0 is 10000).                 *)
(*  - A call that raises is a result record with raised = TRUE, and the    *)
(*    exception's class in exc.                                            *)
(***************************************************************************)
EXTENDS Integers, Sequences, FiniteSets, TLC

VARIABLES
    state,      \* the agents' workflow-state dict (schema.py JobSearchState)
    pc,         \* where the agent run is: "manager", "stage", "crashed", "done"
    exc,        \* the exception the last call of the agent run raised, or "none"
    ran,        \* the stages the agent run has invoked, in order
    wf,         \* main.py: JobSearchWorkflow.run's state dict
    mpc,        \* main.py: the next step of JobSearchWorkflow.run
    env,        \* what the collaborators answered in the last step
    logs,       \* main.py: the records handed to logger.error, in order
    calls,      \* main.py: the calls made to external services, in order
    fn          \* the last pure-function application: its name, inputs and result

vars == <<state, pc, exc, ran, wf, mpc, env, logs, calls, fn>>

agentVars == <<state, pc, exc, ran>>
mainVars == <<wf, mpc, env, logs, calls>>

----------------------------------------------------------------------------
(* Bounds of the model.                                                    *)

\* the longest error_log of a workflow-state snapshot handed to the agents
MaxLog == 1
\* the most raw records the two job sources return together in one search
MaxRaw == 3

\* the most items the two actors' datasets hold together in one actor run
MaxItems == 2
\* the longest list of scored jobs format_results is applied to
MaxScored == 12

\* the longest list of pre-scored jobs the threshold filter is applied to
MaxAllJobs == 7

\* the largest attempt count with_retry is configured with
MaxTries == 3

----------------------------------------------------------------------------
(* Python values.                                                          *)

Get(d, k, default) == IF k \in DOMAIN d THEN d[k] ELSE default

Has(d, k) == k \in DOMAIN d

Range(s) == {s[i] : i \in 1..Len(s)}

Min(a, b) == IF a <= b THEN a ELSE b

Max(a, b) == IF a >= b THEN a ELSE b

\* list(reversed(s))
Reverse(s) == [i \in 1..Len(s) |-> s[Len(s) + 1 - i]]

\* the mutant of Take: the slice forgotten
TakeAll(s, n) == s

\* s[:n]
Take(s, n) == SubSeq(s, 1, Min(n, Len(s)))

\* str.lower() on one symbol
LowerSym(a) ==
    CASE a = "Software" -> "software"
      [] a = "Engineer" -> "engineer"
      [] a = "Senior" -> "senior"
      [] a = "Barista" -> "barista"
      [] a = "Remote" -> "remote"
      [] a = "New York" -> "new york"
      [] a = "NY" -> "ny"
      [] a = "Boston" -> "boston"
      [] a = "Python" -> "python"
      [] a = "SQL" -> "sql"
      [] a = "Java" -> "java"
      [] a = "Script" -> "script"
      [] a = "Acme" -> "acme"
      [] a = "Type" -> "type"
      [] a = "React" -> "react"
      [] a = "Django" -> "django"
      [] a = "FastAPI" -> "fastapi"
      [] a = "Node.js" -> "node.js"
      [] a = "AWS" -> "aws"
      [] a = "Docker" -> "docker"
      [] a = "Kubernetes" -> "kubernetes"
      [] a = "TensorFlow" -> "tensorflow"
      [] a = "PyTorch" -> "pytorch"
      [] a = "LangChain" -> "langchain"
      [] a = "Cafe" -> "cafe"
      [] OTHER -> a

\* str.lower()
Lower(s) == [i \in 1..Len(s) |-> LowerSym(s[i])]

\* needle in hay (str.__contains__): the empty string is in every string
Contains(hay, needle) ==
    \E i \in 0..(Len(hay) - Len(needle)) :
        \A j \in 1..Len(needle) : hay[i + j] = needle[j]

\* the index of the first sep in s, or 0
FirstIndex(s, sep) ==
    IF \E i \in 1..Len(s) : s[i] = sep
    THEN CHOOSE i \in 1..Len(s) : s[i] = sep /\ \A j \in 1..(i - 1) : s[j] # sep
    ELSE 0

RECURSIVE SplitOn(_, _)
\* s.split(sep): the parts between the separators, empty parts kept
SplitOn(s, sep) ==
    LET i == FirstIndex(s, sep)
    IN  IF i = 0 THEN <<s>>
        ELSE <<SubSeq(s, 1, i - 1)>> \o SplitOn(SubSeq(s, i + 1, Len(s)), sep)

\* set(s.split()): the whitespace-separated words
Words(s) == {w \in Range(SplitOn(s, " ")) : w # <<>>}

\* s.strip()
Strip(s) ==
    LET keep == {i \in 1..Len(s) : s[i] # " "}
    IN  IF keep = {} THEN <<>>
        ELSE SubSeq(s, CHOOSE i \in keep : \A j \in keep : i <= j,
                       CHOOSE i \in keep : \A j \in keep : i >= j)

\* the sort key x.get(k, 0) (x[k] where the key is always there)
SortKey(x, k) == Get(x, k, 0)

\* one step of a stable ascending insertion sort: x goes after every element
\* whose key is not greater than its own
InsertAsc(sorted, x, k) ==
    LET n == Cardinality({i \in 1..Len(sorted) : SortKey(sorted[i], k) <= SortKey(x, k)})
    IN  SubSeq(sorted, 1, n) \o <<x>> \o SubSeq(sorted, n + 1, Len(sorted))

RECURSIVE SortAsc(_, _)
\* the stable ascending sort that list.sort runs
SortAsc(s, k) ==
    IF s = <<>> THEN <<>>
    ELSE InsertAsc(SortAsc(SubSeq(s, 1, Len(s) - 1), k), s[Len(s)], k)

\* the mutants of SortReverse: the reverse flag ignored; a sort whose ties come
\* out in reversed order
SortReverseAscending(s, k) == SortAsc(s, k)

SortReverseUnstable(s, k) == Reverse(SortAsc(s, k))

\* list.sort(key=..., reverse=True) and sorted(..., reverse=True): CPython
\* reverses the list, sorts it ascending and stable, and reverses the result
SortReverse(s, k) == Reverse(SortAsc(Reverse(s), k))

\* dict[k] = v
Put(d, k, v) == (k :> v) @@ d

\* Python's None
None == [none |-> TRUE]

\* a call's outcome: a returned value, or an exception of class e
Return(v) == [raised |-> FALSE, value |-> v]

Raise(e) == [raised |-> TRUE, exc |-> e]

----------------------------------------------------------------------------
(* ManagerAgent (src/src/agents/manager.py).                               *)

\* state.get(flag, False)
Flag(s, f) == Get(s, f, FALSE)

\* the mutants of FirstUnset: two tests of the chain swapped; one test left out
FirstUnsetSwapped(s) ==
    IF ~Flag(s, "jobs_scraped") THEN "job_scraper"
    ELSE IF ~Flag(s, "resume_parsed") THEN "resume_parser"
    ELSE IF ~Flag(s, "analysis_complete") THEN "relevance_scorer"
    ELSE IF ~Flag(s, "feedback_processed") THEN "feedback_refiner"
    ELSE IF ~Flag(s, "notification_sent") THEN "notification"
    ELSE "complete"

FirstUnsetSkipping(s) ==
    IF ~Flag(s, "resume_parsed") THEN "resume_parser"
    ELSE IF ~Flag(s, "jobs_scraped") THEN "job_scraper"
    ELSE IF ~Flag(s, "analysis_complete") THEN "relevance_scorer"
    ELSE IF ~Flag(s, "notification_sent") THEN "notification"
    ELSE "complete"

\* the if / elif chain of determine_next_step: the stage of the first unset flag
FirstUnset(s) ==
    IF ~Flag(s, "resume_parsed") THEN "resume_parser"
    ELSE IF ~Flag(s, "jobs_scraped") THEN "job_scraper"
    ELSE IF ~Flag(s, "analysis_complete") THEN "relevance_scorer"
    ELSE IF ~Flag(s, "feedback_processed") THEN "feedback_refiner"
    ELSE IF ~Flag(s, "notification_sent") THEN "notification"
    ELSE "complete"

HasErrors(s) == Has(s, "error_log") /\ Len(s["error_log"]) > 0

\* the mutant of DetermineNextStep: the error log not looked at
DetermineNextStepNoErrorCheck(s) == Put(s, "next_step", FirstUnset(s))

DetermineNextStep(s) ==
    IF HasErrors(s)
    THEN Put(s, "next_step", "complete")
    ELSE Put(s, "next_step", FirstUnset(s))

ManagerProcess(s) ==
    DetermineNextStep(Put(s, "current_phase", Get(s, "next_step", "unknown")))

----------------------------------------------------------------------------
(* Configuration (src/src/config/settings.py).                             *)

\* JOB_SEARCH_CONFIG["detail_fetch_threshold"] = 0.6, in millionths
DETAIL_FETCH_THRESHOLD == 600000

\* JOB_SEARCH_CONFIG["max_details_to_fetch"]
MAX_DETAILS_TO_FETCH == 5

\* INITIAL_SCORING_WEIGHTS, in thousandths
INITIAL_SCORING_WEIGHTS ==
    [title_match |-> 400, location_match |-> 300,
     company_relevance |-> 200, posting_date |-> 100]

\* FINAL_SCORING_WEIGHTS, in hundredths
FINAL_SCORING_WEIGHTS ==
    [skills_match |-> 40, experience_match |-> 25,
     location_match |-> 20, company_fit |-> 15]

----------------------------------------------------------------------------
(* Dates.  datetime.now() is the day number `now`; a datetime is a day     *)
(* number and whether it carries a timezone (aware) or not (naive).  A raw *)
(* posting date is a str that fromisoformat accepts (iso, with or without  *)
(* a timezone suffix such as Z), a str it rejects, or no str at all.       *)

DateTime(day, aware) == [day |-> day, aware |-> aware]

IsoString(day, tz) == [isstr |-> TRUE, iso |-> TRUE, day |-> day, tz |-> tz]

BadDateString == [isstr |-> TRUE, iso |-> FALSE]

NotAString == [isstr |-> FALSE]

\* datetime.fromisoformat(posted_date.replace('Z', '+00:00')), where it succeeds
FromIsoFormat(d) == DateTime(d.day, d.tz)

----------------------------------------------------------------------------
(* JobScraperAgent (src/src/agents/job_scraper.py): Normalizer, PreScorer. *)

\* the posted-date branch of _normalize_job_data
NormalizePostedDate(job, now) ==
    LET posted_date ==
            Get(job, "postedDate", Get(job, "date", Get(job, "listedAt", NotAString)))
    IN  IF posted_date.isstr
        THEN IF posted_date.iso
             THEN FromIsoFormat(posted_date)
             ELSE DateTime(now - 7, FALSE)
        ELSE DateTime(now - 7, FALSE)

\* str(hash(str(job))): decided by the record and the process's hash seed
HashId(job) == <<"hash", job>>

NormalizeJobData(job, now) ==
    [job_id |-> Get(job, "id", Get(job, "jobId", HashId(job))),
     title |-> Get(job, "title", Get(job, "name", <<"Unknown Position">>)),
     company |-> Get(job, "company", Get(job, "companyName", <<"Unknown Company">>)),
     location |-> Get(job, "location", Get(job, "place", <<"Unknown Location">>)),
     url |-> Get(job, "url", Get(job, "link", Get(job, "applicationLink", <<>>))),
     source |-> IF Contains(Get(job, "url", <<>>), <<"linkedin">>)
                THEN "LinkedIn" ELSE "Indeed",
     posted_date |-> NormalizePostedDate(job, now)]

ScoreTitleMatch(job_title, desired_role) ==
    LET t == Lower(job_title)
        r == Lower(desired_role)
    IN  IF t = r THEN 1000
        ELSE IF Contains(t, r) \/ Contains(r, t) THEN 800
        ELSE 400

ScoreLocationMatchInitial(job_location, preferred_location) ==
    IF job_location = <<>> \/ preferred_location = <<>> THEN 500
    ELSE LET j == Lower(job_location)
             p == Lower(preferred_location)
         IN  IF Contains(j, <<"remote">>) THEN 1000
             ELSE IF Contains(j, p) THEN 1000
             ELSE 500

ScoreCompanyRelevance(company, industry_experience) == 700

\* (datetime.now() - posted_date).days and the recency steps; subtracting an
\* aware datetime from the naive datetime.now() raises TypeError
ScorePostingDate(posted_date, now) ==
    IF posted_date.aware
    THEN Raise("TypeError")
    ELSE LET days_old == now - posted_date.day
         IN  Return(IF days_old <= 7 THEN 1000
                    ELSE IF days_old <= 14 THEN 800
                    ELSE IF days_old <= 21 THEN 600
                    ELSE 400)

\* the four sub-scores of _calculate_initial_score, in thousandths
InitialSubScores(job, resume_data, now) ==
    LET date == ScorePostingDate(Get(job, "posted_date", DateTime(now, FALSE)), now)
    IN  IF date.raised
        THEN date
        ELSE Return([title_match |-> ScoreTitleMatch(job.title, resume_data.desired_role),
                     location_match |->
                         ScoreLocationMatchInitial(job.location,
                                                   resume_data.location_preference),
                     company_relevance |->
                         ScoreCompanyRelevance(job.company,
                                               resume_data.industry_experience),
                     posting_date |-> date.value])

\* sum(scores[key] * INITIAL_SCORING_WEIGHTS[key] ...), in millionths
WeightedInitialSum(scores) ==
    scores.title_match * INITIAL_SCORING_WEIGHTS.title_match
    + scores.location_match * INITIAL_SCORING_WEIGHTS.location_match
    + scores.company_relevance * INITIAL_SCORING_WEIGHTS.company_relevance
    + scores.posting_date * INITIAL_SCORING_WEIGHTS.posting_date

CalculateInitialScore(job, resume_data, now) ==
    LET scores == InitialSubScores(job, resume_data, now)
    IN  IF scores.raised THEN scores ELSE Return(WeightedInitialSum(scores.value))

----------------------------------------------------------------------------
(* RelevanceScorerAgent (src/src/agents/relevance_scorer.py): DetailScorer.*)

\* sub-scores in thousandths
ScorePositionMatch(job_title, desired_role) ==
    IF job_title = <<>> \/ desired_role = <<>> THEN 500
    ELSE LET t == Lower(job_title)
             r == Lower(desired_role)
             common == Words(t) \cap Words(r)
         IN  IF t = r THEN 1000
             ELSE IF Contains(t, r) THEN 900
             ELSE IF Contains(r, t) THEN 800
             ELSE IF common # {}
                  THEN (700 * Cardinality(common))
                           \div Max(Cardinality(Words(t)), Cardinality(Words(r)))
                  ELSE 400

ScoreSkillsMatch(required_skills, candidate_skills) ==
    IF required_skills = <<>> THEN 700
    ELSE IF candidate_skills = <<>> THEN 300
    ELSE LET matches ==
                 Cardinality({i \in 1..Len(required_skills) :
                     \E j \in 1..Len(candidate_skills) :
                         \/ Contains(Lower(required_skills[i]), Lower(candidate_skills[j]))
                         \/ Contains(Lower(candidate_skills[j]), Lower(required_skills[i]))})
         IN  Min(1000, (1000 * matches) \div Len(required_skills))

\* any(part.strip() in job_location for part in preferred_location.split(','))
AnyPartIn(preferred_lower, job_lower) ==
    \E part \in Range(SplitOn(preferred_lower, ",")) : Contains(job_lower, Strip(part))

\* the mutant of ScoreLocationMatch: no score of its own for the "Any" mode
\* without a preferred location
ScoreLocationMatchWithoutAnyDefault(job_location, preferred_location, work_mode) ==
    IF job_location = <<>> THEN 500
    ELSE LET j == Lower(job_location)
             p == Lower(preferred_location)
         IN  IF work_mode = "Remote" /\ Contains(j, <<"remote">>) THEN 1000
             ELSE IF work_mode \in {"On-site", "Hybrid", "Any"} /\ preferred_location # <<>>
                     /\ Contains(j, p) THEN 1000
             ELSE IF work_mode \in {"On-site", "Hybrid", "Any"} /\ preferred_location # <<>>
                     /\ AnyPartIn(p, j) THEN 800
             ELSE 400

ScoreLocationMatch(job_location, preferred_location, work_mode) ==
    IF job_location = <<>> THEN 500
    ELSE LET j == Lower(job_location)
             p == Lower(preferred_location)
         IN  IF work_mode = "Remote" /\ Contains(j, <<"remote">>) THEN 1000
             ELSE IF work_mode \in {"On-site", "Hybrid"} /\ preferred_location # <<>>
                     /\ Contains(j, p) THEN 1000
             ELSE IF work_mode \in {"On-site", "Hybrid"} /\ preferred_location # <<>>
                     /\ AnyPartIn(p, j) THEN 800
             ELSE IF work_mode = "Any" /\ preferred_location = <<>> THEN 700
             ELSE IF work_mode = "Any" /\ Contains(j, p) THEN 1000
             ELSE IF work_mode = "Any" /\ AnyPartIn(p, j) THEN 800
             ELSE 400

\* the keys _manual_score_job reads from FINAL_SCORING_WEIGHTS
ManualWeightKeys ==
    <<"position_match", "skills_experience", "location",
      "company_match", "salary_match", "benefits">>

\* the fixed company, salary and benefits scores of _manual_score_job (70, 65
\* and 60), which enter the weighted sum unscaled: in thousandths
ManualDefaults == [company_match |-> 70000, salary_match |-> 65000, benefits |-> 60000]

\* (score_breakdown holds each score on the 0..100 scale, in hundredths)
\* round(sum(score * weight) * 100, 1), in hundredths of a point; w holds the
\* weights in hundredths, the scores are in thousandths
ManualTotal(position_match, skills_match, location_match, w) ==
    LET t == position_match * w["position_match"]
             + skills_match * w["skills_experience"]
             + location_match * w["location"]
             + ManualDefaults.company_match * w["company_match"]
             + ManualDefaults.salary_match * w["salary_match"]
             + ManualDefaults.benefits * w["benefits"]
    IN  10 * ((t + 50) \div 100)

\* _manual_score_job: FINAL_SCORING_WEIGHTS[key] raises KeyError for a key the
\* configured weights do not hold
ManualScoreJob(job, resume_data, preferences) ==
    LET position_match ==
            ScorePositionMatch(Get(job, "title", <<>>), Get(resume_data, "desired_role", <<>>))
        skills_match ==
            ScoreSkillsMatch(Get(job, "required_skills", <<>>), Get(resume_data, "skills", <<>>))
        location_match ==
            ScoreLocationMatch(Get(job, "location", <<>>),
                               Get(resume_data, "location_preference", <<>>),
                               Get(preferences, "work_mode_preference", "Any"))
    IN  IF \E i \in 1..Len(ManualWeightKeys) : ~Has(FINAL_SCORING_WEIGHTS, ManualWeightKeys[i])
        THEN Raise("KeyError")
        ELSE Return(
            [total_score |->
                 ManualTotal(position_match, skills_match, location_match,
                             FINAL_SCORING_WEIGHTS),
             score_breakdown |->
                 [position_match |-> position_match * 10,
                  skills_experience |-> skills_match * 10,
                  location |-> location_match * 10,
                  company_match |-> ManualDefaults.company_match \div 10,
                  salary_match |-> ManualDefaults.salary_match \div 10,
                  benefits |-> ManualDefaults.benefits \div 10],
             match_details |->
                 [position_match |-> <<"The job title", Get(job, "title", <<>>),
                                       "is a match of", position_match>>,
                  skills_experience |-> <<"Matched", skills_match>>,
                  location |-> <<"Location match", location_match>>,
                  company_match |-> <<"Company appears to be a reasonable match">>,
                  salary_match |-> <<"Salary information limited">>,
                  benefits |-> <<"Benefits information limited">>]])

\* What llm.invoke does for one job: it raises, or it answers with a content
\* that is a JSON text (bare, or inside a ```json fence) of some value, or no
\* JSON at all (json.loads raises JSONDecodeError).
LlmRaises == [kind |-> "raise"]

LlmInvalid == [kind |-> "invalid"]

LlmJson(v) == [kind |-> "json", value |-> v]

\* _score_job: llm.invoke is outside the try; the try catches JSONDecodeError
\* and falls back to _manual_score_job
ScoreJob(job, resume_data, preferences, response) ==
    IF response.kind = "raise" THEN Raise("LLMError")
    ELSE IF response.kind = "json" THEN Return(response.value)
    ELSE ManualScoreJob(job, resume_data, preferences)

\* the scoring loop of process: one _score_job per job, in order; the first
\* call that raises, or the first result without the three keys, ends it
ScoredJob(job, resume_data, preferences, response) ==
    LET r == ScoreJob(job, resume_data, preferences, response)
    IN  IF r.raised THEN r
        ELSE IF ~(Has(r.value, "total_score") /\ Has(r.value, "score_breakdown")
                  /\ Has(r.value, "match_details"))
        THEN Raise("KeyError")
        ELSE Return(Put(Put(Put(job, "total_score", r.value.total_score),
                            "score_breakdown", r.value.score_breakdown),
                        "match_details", r.value.match_details))

FirstRaised(results) ==
    results[CHOOSE i \in 1..Len(results) :
                results[i].raised /\ \A j \in 1..(i - 1) : ~results[j].raised]

\* the mutant of EmptyInput: the missing profile is not looked at
EmptyInputListOnly(resume_data, job_listings) == job_listings = <<>>

\* not resume_data or not job_listings
EmptyInput(resume_data, job_listings) == resume_data = None \/ job_listings = <<>>

\* the llm.invoke calls of process: none on empty input, else one per job up
\* to the first job whose scoring raises
RelevanceScorerCalls(s, responses) ==
    LET resume_data == Get(s, "resume_data", None)
        job_listings == Get(s, "job_listings", <<>>)
        preferences == Get(s, "feedback", <<>>)
        raising == {i \in 1..Len(job_listings) :
                       ScoredJob(job_listings[i], resume_data, preferences,
                                 responses[i]).raised}
        last == IF raising = {} THEN Len(job_listings)
                ELSE CHOOSE i \in raising : \A j \in raising : i <= j
    IN  IF EmptyInput(resume_data, job_listings) THEN <<>>
        ELSE [i \in 1..last |-> "llm.invoke"]

RelevanceScorerProcess(s, responses) ==
    LET resume_data == Get(s, "resume_data", None)
        job_listings == Get(s, "job_listings", <<>>)
        preferences == Get(s, "feedback", <<>>)
    IN  IF EmptyInput(resume_data, job_listings)
        THEN Return(Put(Put(s, "analysis_complete", TRUE), "scored_listings", <<>>))
        ELSE LET results == [i \in 1..Len(job_listings) |->
                                ScoredJob(job_listings[i], resume_data, preferences,
                                          responses[i])]
             IN  IF \E i \in 1..Len(results) : results[i].raised
                 THEN FirstRaised(results)
                 ELSE Return(Put(Put(s, "analysis_complete", TRUE), "scored_listings",
                                 SortReverse([i \in 1..Len(results) |-> results[i].value],
                                             "total_score")))

----------------------------------------------------------------------------
(* ResumeParserAgent (src/src/agents/resume_parser.py).                    *)

\* _extract_basic_info: the hardcoded profile used when the answer is no JSON
\* (the experience and education entries, which no score reads, left out)
BasicInfo ==
    [desired_role |-> <<"Software", " ", "Engineer">>,
     location_preference |-> <<"New York", ",", " ", "NY">>,
     total_years_experience |-> 5,
     skills |-> << <<"Python">>, <<"Java", "Script">>, <<"Type", "Script">>, <<"SQL">>,
                   <<"React">>, <<"Django">>, <<"FastAPI">>, <<"Node.js">>,
                   <<"AWS">>, <<"Docker">>, <<"Kubernetes">>,
                   <<"TensorFlow">>, <<"PyTorch">>, <<"LangChain">> >>,
     industry_experience |-> << <<"Technology">>, <<"Software", " ", "Development">> >>,
     experience |-> <<>>,
     education |-> <<>>]

\* the fields ResumeData (schema.py) requires
ResumeDataFields ==
    {"skills", "experience", "education", "desired_role", "location_preference",
     "industry_experience", "total_years_experience"}

\* _create_resume_summary
CreateResumeSummary(resume_data) ==
    [role |-> resume_data.desired_role,
     skills |-> Take(resume_data.skills, 10),
     location |-> resume_data.location_preference]

ResumeParserProcess(s, response) ==
    IF Get(s, "resume_text", <<>>) = <<>> THEN Raise("ValueError")
    ELSE IF response.kind = "raise" THEN Raise("LLMError")
    ELSE LET parsed_data == IF response.kind = "json" THEN response.value ELSE BasicInfo
         IN  IF ~(ResumeDataFields \subseteq DOMAIN parsed_data)
             THEN Raise("ValidationError")
             ELSE Return(Put(Put(Put(s, "resume_parsed", TRUE),
                                 "resume_data", parsed_data),
                             "resume_summary", CreateResumeSummary(parsed_data)))

----------------------------------------------------------------------------
(* with_retry (src/src/utils/retry.py).  An optional argument is <<>>      *)
(* (None) or <<n>>; outcomes[i] is what the i-th call of the wrapped       *)
(* function does: "ok" or "raise".                                         *)

\* settings.RETRY_ATTEMPTS
RETRY_ATTEMPTS == 3

\* settings.RETRY_DELAY, in seconds
RETRY_DELAY == 5

\* x or default: None and 0 are both falsy
OrDefault(opt, default) == IF opt = <<>> \/ opt[1] = 0 THEN default ELSE opt[1]

\* the while loop of wrapper: calls counts the calls of func made so far,
\* sleeps holds the time.sleep arguments so far
RECURSIVE RetryLoop(_, _, _, _, _)
RetryLoop(max_attempts, delay, outcomes, attempts, sleeps) ==
    IF ~(attempts < max_attempts)
    THEN [result |-> Raise("RuntimeError"), calls |-> attempts, sleeps |-> sleeps]
    ELSE IF outcomes[attempts + 1] = "ok"
    THEN [result |-> Return("ok"), calls |-> attempts + 1, sleeps |-> sleeps]
    ELSE IF attempts + 1 >= max_attempts
    THEN [result |-> Raise("ActorError"), calls |-> attempts + 1, sleeps |-> sleeps]
    ELSE RetryLoop(max_attempts, delay, outcomes, attempts + 1, Append(sleeps, delay))

WithRetry(max_attempts, delay, outcomes) ==
    RetryLoop(OrDefault(max_attempts, RETRY_ATTEMPTS), OrDefault(delay, RETRY_DELAY),
              outcomes, 0, <<>>)

----------------------------------------------------------------------------
(* JobScraperAgent.process.  A run_actor call raises or returns the items  *)
(* of the actor's dataset.                                                 *)

ActorRaises == [raised |-> TRUE, exc |-> "ActorError"]

\* normalize and pre-score one raw record of the search
InitialScored(job, resume_data, now) ==
    LET normalized_job == NormalizeJobData(job, now)
        score == CalculateInitialScore(normalized_job, resume_data, now)
    IN  IF score.raised THEN score
        ELSE Return(Put(normalized_job, "initial_score", score.value))

\* the mutant of PromisingJobs: the cap applied before the sort
PromisingJobsCapFirst(all_jobs) ==
    LET kept == SelectSeq(all_jobs, LAMBDA j : j.initial_score >= DETAIL_FETCH_THRESHOLD)
    IN  SortReverse(Take(kept, MAX_DETAILS_TO_FETCH), "initial_score")

\* [j for j in all_jobs if j["initial_score"] >= threshold], sorted, capped
PromisingJobs(all_jobs) ==
    LET kept == SelectSeq(all_jobs, LAMBDA j : j.initial_score >= DETAIL_FETCH_THRESHOLD)
    IN  Take(SortReverse(kept, "initial_score"), MAX_DETAILS_TO_FETCH)

\* the detail actor's answer for one url: the posting's detail record
DetailRecord(job) ==
    [title |-> job.title, company |-> job.company, location |-> job.location,
     url |-> job.url, required_skills |-> << <<"Python">> >>]

\* _fetch_job_details: one run_actor per linkedin.com url; details says what
\* the detail actor does: "raise", "empty" (no items) or "items"
FetchJobDetails(promising_jobs, details) ==
    LET linked == SelectSeq(promising_jobs,
                            LAMBDA j : Contains(j.url, <<"linkedin", ".com">>))
    IN  IF linked # <<>> /\ details = "raise" THEN ActorRaises
        ELSE IF details = "items"
        THEN Return([i \in 1..Len(linked) |-> DetailRecord(linked[i])])
        ELSE Return(<<>>)

JobScraperProcess(s, linkedin_jobs, indeed_jobs, details, now) ==
    IF ~Has(s, "resume_data") \/ ~Has(s, "feedback") THEN Raise("KeyError")
    ELSE IF s["resume_data"] = None THEN Raise("AttributeError")
    ELSE IF linkedin_jobs.raised THEN linkedin_jobs
    ELSE IF indeed_jobs.raised THEN indeed_jobs
    ELSE LET raw == linkedin_jobs.value \o indeed_jobs.value
             scored == [i \in 1..Len(raw) |-> InitialScored(raw[i], s["resume_data"], now)]
         IN  IF \E i \in 1..Len(scored) : scored[i].raised
             THEN FirstRaised(scored)
             ELSE LET promising_jobs ==
                          PromisingJobs([i \in 1..Len(scored) |-> scored[i].value])
                      detailed_jobs == FetchJobDetails(promising_jobs, details)
                  IN  IF detailed_jobs.raised THEN detailed_jobs
                      ELSE Return(Put(Put(s, "jobs_scraped", TRUE), "job_listings",
                                      IF detailed_jobs.value = <<>>
                                      THEN promising_jobs
                                      ELSE detailed_jobs.value))

----------------------------------------------------------------------------
(* FeedbackRefinerAgent (src/src/agents/feedback_refiner.py).              *)

\* _process_feedback: the llm is asked only when there are preferences and results
ProcessFeedback(feedback, current_results, response) ==
    IF DOMAIN feedback # {} /\ current_results # <<>>
    THEN IF response.kind = "raise" THEN Raise("LLMError")
         ELSE Return([original_feedback |-> feedback,
                      refinement_suggestions |-> response,
                      adjusted_parameters |-> feedback])
    ELSE Return([adjusted_parameters |-> feedback])

FeedbackRefinerProcess(s, response) ==
    LET refinements == ProcessFeedback(Get(s, "feedback", <<>>),
                                       Get(s, "scored_listings", <<>>), response)
    IN  IF refinements.raised THEN refinements
        ELSE Return(Put(Put(s, "feedback_processed", TRUE),
                        "search_refinements", refinements.value))

----------------------------------------------------------------------------
(* NotificationAgent (src/src/agents/notification.py).                     *)

\* the skills of the jobs' required_skills lists, one after the other
RECURSIVE AllRequiredSkills(_)
AllRequiredSkills(jobs) ==
    IF jobs = <<>> THEN <<>>
    ELSE Get(jobs[1], "required_skills", <<>>) \o AllRequiredSkills(Tail(jobs))

\* _extract_common_skills: the dict's items are in first-insertion order; the
\* sort by count is stable
ExtractCommonSkills(jobs) ==
    LET all == AllRequiredSkills(jobs)
        firsts == SelectSeq([i \in 1..Len(all) |-> [skill |-> all[i], at |-> i]],
                            LAMBDA e : \A j \in 1..(e.at - 1) : all[j] # e.skill)
        items == [i \in 1..Len(firsts) |->
                     [skill |-> firsts[i].skill,
                      count |-> Cardinality({j \in 1..Len(all) : all[j] = firsts[i].skill})]]
    IN  SortReverse(items, "count")

FormatResultsSummary(scored_listings) ==
    IF scored_listings = <<>> THEN [text |-> "No matching jobs found."]
    ELSE [total |-> Len(scored_listings),
          top |-> [i \in 1..Min(5, Len(scored_listings)) |->
                      [title |-> Get(scored_listings[i], "title", <<"Unknown Position">>),
                       score |-> Get(scored_listings[i], "total_score", 0)]],
          skills |-> Take(ExtractCommonSkills(scored_listings), 5)]

\* the mutant of NotificationProcess: the feedback stage's flag is cleared
NotificationProcessClearingFeedback(s) ==
    Return(Put(Put(Put(Put(s, "notification_sent", TRUE),
                       "results_summary",
                       FormatResultsSummary(Get(s, "scored_listings", <<>>))),
                   "next_step", "complete"),
               "feedback_processed", FALSE))

NotificationProcess(s) ==
    Return(Put(Put(Put(s, "notification_sent", TRUE),
                   "results_summary", FormatResultsSummary(Get(s, "scored_listings", <<>>))),
               "next_step", "complete"))

----------------------------------------------------------------------------
(* The inputs of the agent run.                                            *)

SeqsUpTo(S, n) == UNION {[1..k -> S] : k \in 0..n}

SoftwareEngineer == <<"Software", " ", "Engineer">>

NewYorkNY == <<"New York", ",", " ", "NY">>

LinkedInUrl == <<"https://", "linkedin", ".com", "/jobs/1">>

IndeedUrl == <<"https://", "indeed", ".com", "/viewjob">>

\* the days datetime.now() is read on: day 0
Clock == {0}

ProfileA ==
    [desired_role |-> SoftwareEngineer,
     location_preference |-> NewYorkNY,
     total_years_experience |-> 5,
     skills |-> << <<"Python">>, <<"SQL">> >>,
     industry_experience |-> <<>>,
     experience |-> <<>>,
     education |-> <<>>]

\* what the llm answers to the resume prompt
ResumeResponses ==
    {LlmRaises, LlmInvalid, LlmJson(ProfileA), LlmJson([desired_role |-> SoftwareEngineer])}

\* raw records of the search actors: the keys differ by source
AgentRawRecords ==
    {[id |-> <<"1">>, title |-> SoftwareEngineer, company |-> <<"Acme">>,
      location |-> NewYorkNY, url |-> LinkedInUrl, postedDate |-> IsoString(0 - 1, FALSE)],
     [name |-> <<"Barista">>, companyName |-> <<"Cafe">>, place |-> <<"Remote">>,
      link |-> IndeedUrl, date |-> IsoString(3, FALSE)],
     [title |-> <<>>, company |-> <<"Acme">>, location |-> <<"Boston">>,
      url |-> LinkedInUrl, listedAt |-> IsoString(0 - 30, FALSE)],
     [company |-> <<"Cafe">>, postedDate |-> BadDateString],
     [jobId |-> <<"5">>, title |-> <<"Senior", " ", "Software", " ", "Engineer">>,
      company |-> <<"Acme">>, location |-> <<"Boston">>, url |-> IndeedUrl,
      postedDate |-> IsoString(0 - 2, TRUE)]}

\* the two searches of one job_scraper call: each raises or returns records
SearchResults ==
    {<<l, i>> \in ({ActorRaises} \cup {Return(x) : x \in SeqsUpTo(AgentRawRecords, MaxRaw)})
                  \X ({ActorRaises} \cup {Return(x) : x \in SeqsUpTo(AgentRawRecords, MaxRaw)}) :
        (~l.raised /\ ~i.raised) => Len(l.value) + Len(i.value) <= MaxRaw}

ScoreAnswer(total) ==
    [total_score |-> total,
     score_breakdown |-> [position_match |-> total],
     match_details |-> [position_match |-> <<"explained">>]]

\* what the llm answers to one scoring prompt
AgentScoreResponses ==
    {LlmRaises, LlmInvalid, LlmJson(ScoreAnswer(5000)), LlmJson(ScoreAnswer(9000)),
     LlmJson([total_score |-> 5000])}

----------------------------------------------------------------------------
(* The agent run: the coordinator, then the stage it names, again and      *)
(* again (spec 4.5).  A stage that raises ends the run.                    *)

\* JobSearchState's defaults (schema.py), as the dict the agents work on
InitialState(resume_text, feedback) ==
    [resume_text |-> resume_text,
     resume_parsed |-> FALSE,
     jobs_scraped |-> FALSE,
     analysis_complete |-> FALSE,
     current_phase |-> "init",
     next_step |-> "resume_parser",
     resume_data |-> None,
     resume_summary |-> None,
     job_listings |-> <<>>,
     scored_listings |-> <<>>,
     feedback |-> feedback,
     error_log |-> <<>>]

Feedbacks == {<<>>, [work_mode_preference |-> "Remote"]}

MainIdle ==
    /\ wf = <<>>
    /\ mpc = "idle"
    /\ env = <<>>
    /\ logs = <<>>
    /\ calls = <<>>

FnIdle == fn = [op |-> "none"]

Init ==
    /\ \E resume_text \in {<<>>, <<"resume">>}, feedback \in Feedbacks :
           state = InitialState(resume_text, feedback)
    /\ pc = "manager"
    /\ exc = "none"
    /\ ran = <<>>
    /\ MainIdle
    /\ FnIdle

RunManager ==
    /\ pc \in {"manager", "done"}
    /\ state' = ManagerProcess(state)
    /\ pc' = IF state'.next_step = "complete" THEN "done" ELSE "stage"
    /\ UNCHANGED <<exc, ran, wf, mpc, env, logs, calls, fn>>

\* the coordinator has named this stage, and the driver calls it
Named(name) == pc = "stage" /\ state.next_step = name

\* the stage's outcome: its returned state replaces the state and the
\* coordinator is next; an exception ends the run
RunStage(name, outcome) ==
    /\ ran' = Append(ran, name)
    /\ IF outcome.raised
       THEN /\ pc' = "crashed"
            /\ exc' = outcome.exc
            /\ UNCHANGED state
       ELSE /\ pc' = "manager"
            /\ state' = outcome.value
            /\ UNCHANGED exc
    /\ UNCHANGED <<wf, mpc, logs, calls, fn>>

RunResumeParser ==
    /\ Named("resume_parser")
    /\ \E response \in ResumeResponses :
           RunStage("resume_parser", ResumeParserProcess(state, response))
    /\ UNCHANGED env

RunJobScraper ==
    /\ Named("job_scraper")
    /\ \E search \in SearchResults, details \in {"raise", "empty", "items"}, now \in Clock :
           RunStage("job_scraper",
                    JobScraperProcess(state, search[1], search[2], details, now))
    /\ UNCHANGED env

RunRelevanceScorer ==
    /\ Named("relevance_scorer")
    /\ \E responses \in [1..Len(state.job_listings) -> AgentScoreResponses] :
           /\ RunStage("relevance_scorer", RelevanceScorerProcess(state, responses))
           /\ env' = [responses |-> responses]

RunFeedbackRefiner ==
    /\ Named("feedback_refiner")
    /\ \E response \in {LlmRaises, LlmInvalid} :
           RunStage("feedback_refiner", FeedbackRefinerProcess(state, response))
    /\ UNCHANGED env

RunNotification ==
    /\ Named("notification")
    /\ RunStage("notification", NotificationProcess(state))
    /\ UNCHANGED env

Next ==
    \/ RunManager
    \/ RunResumeParser
    \/ RunJobScraper
    \/ RunRelevanceScorer
    \/ RunFeedbackRefiner
    \/ RunNotification

Spec == Init /\ [][Next]_vars

----------------------------------------------------------------------------
(* JobSearchWorkflow (src/src/main.py): the Normalizer of the actor run.   *)

\* self.JOBS_PER_SOURCE
JOBS_PER_SOURCE == 10

\* job.get(k) or alt: the value of k when it is there and not empty
GetOr(job, k, alt) == IF Has(job, k) /\ job[k] # <<>> THEN job[k] ELSE alt

\* standardize_job_data: None for a record without a title or a company
StandardizeJobData(job) ==
    LET standardized ==
            [title |-> GetOr(job, "title", GetOr(job, "positionName", Get(job, "name", <<>>))),
             company |-> GetOr(job, "company", Get(job, "companyName", <<>>)),
             location |-> GetOr(job, "location", Get(job, "place", <<>>)),
             description |-> GetOr(job, "description", Get(job, "jobDescription", <<>>)),
             url |-> GetOr(job, "url", Get(job, "applicationLink", <<>>)),
             source |-> IF Contains(Get(job, "url", <<>>), <<"linkedin", ".com">>)
                        THEN "LinkedIn" ELSE "Indeed"]
    IN  IF standardized.title = <<>> \/ standardized.company = <<>>
        THEN None
        ELSE standardized

\* standardize_indeed_job: the company's description stands in for a missing
\* job description
StandardizeIndeedJob(job) ==
    LET description == Get(job, "description", <<>>)
        standardized ==
            [title |-> Get(job, "positionName", <<>>),
             company |-> Get(job, "company", <<>>),
             location |-> Get(job, "location", <<>>),
             description |->
                 IF Has(job, "companyInfo")
                    /\ GetOr(job["companyInfo"], "companyDescription", <<>>) # <<>>
                    /\ description = <<>>
                 THEN job["companyInfo"]["companyDescription"]
                 ELSE description,
             url |-> Get(job, "applicationLink", <<>>),
             source |-> "Indeed"]
    IN  IF standardized.title = <<>> \/ standardized.company = <<>>
        THEN None
        ELSE standardized

\* the standardized records of a list, the None results left out
KeepStandardized(results) == SelectSeq(results, LAMBDA r : r # None)

\* What one source does in search_jobs: the actor call raises ("call"), the
\* read of its dataset raises ("dataset"), or the dataset's items come back.
SourceFails(at) == [failed |-> TRUE, at |-> at]

SourceItems(items) == [failed |-> FALSE, items |-> items]

\* the jobs search_jobs takes from LinkedIn, and what it logs
LinkedInJobs(source) ==
    IF source.failed
    THEN [jobs |-> <<>>,
          logged |-> IF source.at = "call"
                     THEN <<"LinkedIn search failed">>
                     ELSE <<"Error processing LinkedIn dataset">>]
    ELSE [jobs |-> Take(source.items, JOBS_PER_SOURCE), logged |-> <<>>]

\* the jobs search_jobs takes from Indeed, and what it logs
IndeedJobs(source) ==
    IF source.failed
    THEN [jobs |-> <<>>,
          logged |-> IF source.at = "call"
                     THEN <<"Indeed search failed">>
                     ELSE <<"Error processing Indeed dataset">>]
    ELSE LET raw == Take(source.items, JOBS_PER_SOURCE)
         IN  [jobs |-> Take(KeepStandardized([i \in 1..Len(raw) |->
                                                 StandardizeIndeedJob(raw[i])]),
                            JOBS_PER_SOURCE),
              logged |-> <<>>]

\* search_jobs: state["jobs"] and the records logged
SearchJobs(w, linkedin, indeed) ==
    LET li == LinkedInJobs(linkedin)
        ind == IndeedJobs(indeed)
        all_jobs == li.jobs \o ind.jobs
    IN  [state |-> Put(w, "jobs",
                       Take(KeepStandardized([i \in 1..Len(all_jobs) |->
                                                 StandardizeJobData(all_jobs[i])]),
                            JOBS_PER_SOURCE * 2)),
         logged |-> li.logged \o ind.logged]

----------------------------------------------------------------------------
(* JobSearchWorkflow.score_jobs: the DetailScorer of the actor run.        *)
(* Scores are on the 0..100 scale, in hundredths.                          *)

\* What the reasoning service does for one job: the call raises; or its
\* content is no JSON object (json.loads, or the use of its value as a dict,
\* raises); or it is a JSON object.  push says whether the job_score charge
\* event that follows (Actor.push_data) goes through ("ok") or raises.
CallRaises == [kind |-> "raise", value |-> <<>>, push |-> "none"]

ContentUnusable == [kind |-> "invalid", value |-> <<>>, push |-> "none"]

ContentObject(v, push) == [kind |-> "json", value |-> v, push |-> push]

ScoreCategories == <<"skills_match", "experience_match", "location_match", "company_fit">>

\* the total computed when the object has no total_score: the categories
\* that are there, each times weights.get(category, default)
ComputedTotal(scores) ==
    LET part(c) == IF Has(scores, c) /\ Has(scores[c], "score")
                   THEN (scores[c]["score"] * Get(FINAL_SCORING_WEIGHTS, c, 0)) \div 100
                   ELSE 0
    IN  part("skills_match") + part("experience_match")
        + part("location_match") + part("company_fit")

\* the record of the except branch: every category and the total at 70
DefaultScoredJob(job) ==
    LET basic == [score |-> 7000,
                  explanation |-> "Basic score due to error in detailed scoring."]
    IN  Put(Put(job, "match_score",
                [skills_match |-> basic, experience_match |-> basic,
                 location_match |-> basic, company_fit |-> basic,
                 total_score |-> 7000,
                 explanation |-> "Basic score due to error in detailed scoring."]),
            "total_score", 7000)

\* the record of the try branch
ParsedScoredJob(job, value) ==
    LET scores == IF Has(value, "total_score") THEN value
                  ELSE Put(value, "total_score", ComputedTotal(value))
    IN  Put(Put(job, "match_score", scores), "total_score", scores["total_score"])

\* what one pass of the loop appends to scored_jobs, the call having returned:
\* the append comes before the charge event, inside the same try, so a
\* charge that raises appends the default record as well
ScoredJobsFor(job, response) ==
    IF response.kind = "invalid" THEN <<DefaultScoredJob(job)>>
    ELSE IF response.push # "raise" THEN <<ParsedScoredJob(job, response.value)>>
    ELSE <<ParsedScoredJob(job, response.value), DefaultScoredJob(job)>>

RECURSIVE Flatten(_)
Flatten(ss) == IF ss = <<>> THEN <<>> ELSE ss[1] \o Flatten(Tail(ss))

\* score_jobs: a call that raises is caught by the outer except, which logs
\* and returns with an empty scored_jobs
ScoreJobs(w, responses) ==
    LET jobs == w["jobs"]
        raising == {i \in 1..Len(jobs) : responses[i].kind = "raise"}
        caught == [i \in 1..Len(jobs) |->
                      IF responses[i].kind = "invalid" \/ responses[i].push = "raise"
                      THEN <<"Error parsing score response">> ELSE <<>>]
    IN  IF raising # {}
        THEN LET first == CHOOSE i \in raising : \A j \in raising : i <= j
             IN  [state |-> Put(w, "scored_jobs", <<>>),
                  logged |-> Flatten(SubSeq(caught, 1, first - 1))
                             \o <<"Error scoring jobs">>]
        ELSE [state |-> Put(w, "scored_jobs",
                            SortReverse(Flatten([i \in 1..Len(jobs) |->
                                                    ScoredJobsFor(jobs[i], responses[i])]),
                                        "total_score")),
              logged |-> Flatten(caught)]

----------------------------------------------------------------------------
(* JobSearchWorkflow.format_results: the Aggregator of the actor run.      *)

\* the skills format_results looks for in the descriptions, in its order
CommonSkills ==
    << <<"Python">>, <<"Java", "Script">>, <<"Java">>, <<"C++">>, <<"React">>,
       <<"Angular">>, <<"Node.js">>, <<"AWS">>, <<"Azure">>, <<"SQL">>, <<"NoSQL">>,
       <<"Docker">>, <<"Kubernetes">>, <<"Machine", " ", "Learning">> >>

\* the skills of one description that all_skills does not hold yet, appended
AddSkills(all_skills, description) ==
    all_skills \o SelectSeq(CommonSkills,
                            LAMBDA skill : /\ description # <<>>
                                           /\ Contains(Lower(description), Lower(skill))
                                           /\ skill \notin Range(all_skills))

RECURSIVE AllSkills(_)
\* all_skills after the loop over the scored jobs
AllSkills(jobs) ==
    IF jobs = <<>> THEN <<>>
    ELSE AddSkills(AllSkills(SubSeq(jobs, 1, Len(jobs) - 1)),
                   GetOr(jobs[Len(jobs)], "description",
                         Get(jobs[Len(jobs)], "jobDescription", <<>>)))

RECURSIVE SumTotals(_)
SumTotals(jobs) ==
    IF jobs = <<>> THEN 0 ELSE Get(jobs[1], "total_score", 0) + SumTotals(Tail(jobs))

\* round(sum / total_jobs, 1), in hundredths: the mean to the nearest tenth
AverageScore(jobs) ==
    IF Len(jobs) > 0
    THEN 10 * ((2 * SumTotals(jobs) + 10 * Len(jobs)) \div (20 * Len(jobs)))
    ELSE 0

\* one entry of results["results"]
ResultEntry(job) ==
    [position |-> GetOr(job, "title", Get(job, "name", <<>>)),
     company |-> GetOr(job, "company", Get(job, "companyName", <<>>)),
     location |-> GetOr(job, "location", Get(job, "place", <<>>)),
     matchScore |-> Get(job, "total_score", 0),
     matchDetails |-> Get(job, "match_score", <<>>),
     applicationUrl |->
         GetOr(job, "applyUrl", GetOr(job, "applicationUrl", GetOr(job, "apply_url",
               GetOr(job, "url", GetOr(job, "link", <<>>))))),
     source |-> IF \/ Contains(Get(job, "url", <<>>), <<"linkedin", ".com">>)
                   \/ Contains(Get(job, "url", <<>>), <<"lnkd.in">>)
                THEN "LinkedIn" ELSE "Indeed"]

\* the results object of the try branch; now is datetime.now()
BuildResults(w, now) ==
    LET scored_jobs == w["scored_jobs"]
        top == Take(scored_jobs, 10)
    IN  [query |->
             [resumeSummary |-> w["resume_info"],
              searchParameters |->
                  [location |-> GetOr(w, "location_preference",
                                      Get(w["resume_info"], "location_preference", <<>>)),
                   workMode |-> w["work_mode_preference"]]],
         results |-> [i \in 1..Len(top) |-> ResultEntry(top[i])],
         statistics |->
             [totalJobsFound |-> Len(scored_jobs),
              averageMatchScore |-> AverageScore(scored_jobs),
              topSkillsRequested |-> Take(AllSkills(scored_jobs), 5),
              timestamp |-> now]]

\* the results object of the except branch
FallbackResults(w, now) ==
    [query |-> [resumeSummary |-> w["resume_info"]],
     results |-> <<>>,
     statistics |-> [totalJobsFound |-> 0, timestamp |-> now]]

\* format_results: the results_summary charge event comes after
\* state["results"] is set, inside the try
FormatResults(w, push, now) ==
    IF push = "raise"
    THEN [state |-> Put(w, "results", FallbackResults(w, now)),
          logged |-> <<"Error formatting results">>]
    ELSE [state |-> Put(w, "results", BuildResults(w, now)), logged |-> <<>>]

----------------------------------------------------------------------------
(* The actor run: main() validates the input and JobSearchWorkflow.run     *)
(* takes the state through extract_resume_info, search_jobs, score_jobs    *)
(* and format_results; main() pushes the results.                          *)

DataEngineer == <<"Data", " ", "Engineer">>

\* what Actor.get_input() returns
ActorInputs ==
    {[apifyApiToken |-> <<"token">>, openAiApiKey |-> <<"key">>, resumeText |-> <<"resume">>],
     [apifyApiToken |-> <<"token">>, openAiApiKey |-> <<"key">>, resumeText |-> <<"resume">>,
      locationPreference |-> <<"Boston">>, workModePreference |-> <<"Remote">>],
     [apifyApiToken |-> <<"token">>, openAiApiKey |-> <<"key">>, resumeText |-> <<>>],
     [apifyApiToken |-> <<"token">>, openAiApiKey |-> <<"key">>],
     [openAiApiKey |-> <<"key">>, resumeText |-> <<"resume">>],
     <<>>}

\* the JSON object the reasoning service extracts from a resume
ResumeInfoA ==
    [desired_role |-> SoftwareEngineer,
     skills |-> << <<"Python">>, <<"SQL">> >>,
     years_experience |-> 5,
     location_preference |-> NewYorkNY]

\* what the reasoning service does for the resume, and the resume_parse
\* charge event after it
ResumeInfoResponses ==
    {CallRaises, ContentUnusable,
     ContentObject(ResumeInfoA, "ok"), ContentObject(ResumeInfoA, "raise"),
     ContentObject([skills |-> <<>>], "ok")}

\* the items of the LinkedIn actor's dataset
LinkedInRecords ==
    {[title |-> SoftwareEngineer, company |-> <<"Acme">>, location |-> NewYorkNY,
      description |-> <<"Python", " ", "and", " ", "SQL">>, url |-> LinkedInUrl],
     [title |-> <<>>, company |-> <<"Acme">>, url |-> LinkedInUrl],
     [name |-> <<"Barista">>, companyName |-> <<"Cafe">>, place |-> <<"Remote">>,
      jobDescription |-> <<"Java", "Script">>]}

\* the items of the Indeed actor's dataset
IndeedRecords ==
    {[positionName |-> DataEngineer, company |-> <<"Initech">>, location |-> <<"Boston">>,
      applicationLink |-> IndeedUrl,
      companyInfo |-> [companyDescription |-> <<"AWS", " ", "and", " ", "Docker">>]],
     [positionName |-> <<"Clerk">>, location |-> <<"Boston">>]}

SourceOutcomes(records) ==
    {SourceFails("call"), SourceFails("dataset")}
        \cup {SourceItems(items) : items \in SeqsUpTo(records, MaxItems)}

\* the number of raw records a source's outcome holds
RawCount(source) == IF source.failed THEN 0 ELSE Len(source.items)

\* what the two sources do in one search_jobs call
MainSearchResults ==
    {<<l, i>> \in SourceOutcomes(LinkedInRecords) \X SourceOutcomes(IndeedRecords) :
        RawCount(l) + RawCount(i) <= MaxItems}

CategoryScore(score) == [score |-> score, explanation |-> <<"explained">>]

\* a JSON object with a total_score
ScoresWithTotal(total) ==
    [skills_match |-> CategoryScore(8000), total_score |-> total]

\* a JSON object without a total_score
ScoresWithoutTotal ==
    [skills_match |-> CategoryScore(8000), experience_match |-> CategoryScore(7000),
     location_match |-> CategoryScore(9000), company_fit |-> CategoryScore(6000)]

\* what the reasoning service does for one job, and the job_score charge
\* event after it
MainScoreResponses ==
    {CallRaises, ContentUnusable,
     ContentObject(ScoresWithTotal(15000), "ok"),
     ContentObject(ScoresWithoutTotal, "ok"),
     ContentObject(ScoresWithTotal(5000), "raise")}

AgentIdle ==
    /\ state = <<>>
    /\ pc = "idle"
    /\ exc = "none"
    /\ ran = <<>>

InitMain ==
    /\ wf = <<>>
    /\ mpc = "main"
    /\ env = <<>>
    /\ logs = <<>>
    /\ calls = <<>>
    /\ AgentIdle
    /\ FnIdle

\* validate_input: the ValueError of the first required field that is
\* missing or empty
ValidateInput(input_data) ==
    IF Get(input_data, "apifyApiToken", <<>>) = <<>> THEN Raise("ValueError")
    ELSE IF Get(input_data, "openAiApiKey", <<>>) = <<>> THEN Raise("ValueError")
    ELSE IF Get(input_data, "resumeText", <<>>) = <<>> THEN Raise("ValueError")
    ELSE Return(input_data)

\* the state dict JobSearchWorkflow.run starts from
WorkflowState(input_data) ==
    [resume_text |-> input_data["resumeText"],
     location_preference |-> Get(input_data, "locationPreference", <<>>),
     work_mode_preference |-> Get(input_data, "workModePreference", <<"Any">>),
     search_radius |-> Get(input_data, "searchRadius", 25),
     min_salary |-> Get(input_data, "minSalary", 0),
     resume_info |-> <<>>,
     jobs |-> <<>>,
     scored_jobs |-> <<>>,
     results |-> <<>>]

\* main() up to the first step of run: the output schema is stored and the
\* input read before the input is validated
MainStart ==
    /\ mpc = "main"
    /\ \E input_data \in ActorInputs :
           /\ env' = [input |-> input_data]
           /\ calls' = calls \o <<"set_value", "get_input">>
           /\ IF ValidateInput(input_data).raised
              THEN /\ mpc' = "failed"
                   /\ logs' = Append(logs, "Actor failed")
                   /\ UNCHANGED wf
              ELSE /\ mpc' = "extract_resume_info"
                   /\ wf' = WorkflowState(input_data)
                   /\ UNCHANGED logs
    /\ UNCHANGED <<agentVars, fn>>

\* extract_resume_info: the call, json.loads and the charge event are in
\* one try whose except logs and raises again, through run and main
ExtractResumeInfo(w, response) ==
    IF response.kind = "raise"
    THEN [state |-> w, raised |-> TRUE, calls |-> <<"reasoning">>]
    ELSE IF response.kind = "invalid"
    THEN [state |-> w, raised |-> TRUE, calls |-> <<"reasoning">>]
    ELSE [state |-> Put(w, "resume_info",
                        Put(response.value, "work_mode_preference",
                            w["work_mode_preference"])),
          raised |-> response.push = "raise",
          calls |-> <<"reasoning", "push_data">>]

RunExtractResumeInfo ==
    /\ mpc = "extract_resume_info"
    /\ \E response \in ResumeInfoResponses :
           LET r == ExtractResumeInfo(wf, response)
           IN  /\ env' = [response |-> response]
               /\ wf' = r.state
               /\ calls' = calls \o r.calls
               /\ IF r.raised
                  THEN /\ mpc' = "failed"
                       /\ logs' = logs \o <<"Error extracting resume info",
                                            "Error in workflow", "Actor failed">>
                  ELSE /\ mpc' = "search_jobs"
                       /\ UNCHANGED logs
    /\ UNCHANGED <<agentVars, fn>>

\* the external calls of one source: the actor's run, then its dataset
SourceCalls(source) ==
    IF source.failed /\ source.at = "call" THEN <<"actor">> ELSE <<"actor", "dataset">>

RunSearchJobs ==
    /\ mpc = "search_jobs"
    /\ \E search \in MainSearchResults :
           LET r == SearchJobs(wf, search[1], search[2])
           IN  /\ env' = [linkedin |-> search[1], indeed |-> search[2]]
               /\ wf' = r.state
               /\ logs' = logs \o r.logged
               /\ calls' = calls \o SourceCalls(search[1]) \o SourceCalls(search[2])
    /\ mpc' = "score_jobs"
    /\ UNCHANGED <<agentVars, fn>>

\* the external calls of score_jobs: one reasoning call per job up to the
\* first that raises, each followed by its charge event when its content
\* was parsed
ScoreJobsCalls(responses) ==
    LET n == Len(responses)
        raising == {i \in 1..n : responses[i].kind = "raise"}
        last == IF raising = {} THEN n ELSE CHOOSE i \in raising : \A j \in raising : i <= j
    IN  Flatten([i \in 1..last |->
                    IF responses[i].kind = "json"
                    THEN <<"reasoning", "push_data">> ELSE <<"reasoning">>])

RunScoreJobs ==
    /\ mpc = "score_jobs"
    /\ \E responses \in [1..Len(wf["jobs"]) -> MainScoreResponses] :
           LET r == ScoreJobs(wf, responses)
           IN  /\ env' = [responses |-> responses]
               /\ wf' = r.state
               /\ logs' = logs \o r.logged
               /\ calls' = calls \o ScoreJobsCalls(responses)
    /\ mpc' = "format_results"
    /\ UNCHANGED <<agentVars, fn>>

RunFormatResults ==
    /\ mpc = "format_results"
    /\ \E push \in {"ok", "raise"}, now \in Clock :
           LET r == FormatResults(wf, push, now)
           IN  /\ env' = [push |-> push]
               /\ wf' = r.state
               /\ logs' = logs \o r.logged
    /\ calls' = Append(calls, "push_data")
    /\ mpc' = "push_results"
    /\ UNCHANGED <<agentVars, fn>>

\* main() after run has returned state["results"]: they are pushed to the
\* dataset
PushResults ==
    /\ mpc = "push_results"
    /\ \E push \in {"ok", "raise"} :
           /\ env' = [push |-> push]
           /\ IF push = "raise"
              THEN /\ mpc' = "failed"
                   /\ logs' = Append(logs, "Actor failed")
              ELSE /\ mpc' = "finished"
                   /\ UNCHANGED logs
    /\ calls' = Append(calls, "push_data")
    /\ UNCHANGED <<wf, agentVars, fn>>

NextMain ==
    \/ MainStart
    \/ RunExtractResumeInfo
    \/ RunSearchJobs
    \/ RunScoreJobs
    \/ RunFormatResults
    \/ PushResults

SpecMain == InitMain /\ [][NextMain]_vars

----------------------------------------------------------------------------
(* The two programs of the repository side by side: a behaviour is an      *)
(* agent run or an actor run.                                              *)

InitPrograms == Init \/ InitMain

NextPrograms == Next \/ NextMain

SpecPrograms == InitPrograms /\ [][NextPrograms]_vars

----------------------------------------------------------------------------
(* The scoring functions applied to inputs of their domain.                *)

JobA ==
    [title |-> SoftwareEngineer, company |-> <<"Acme">>, location |-> NewYorkNY,
     required_skills |-> << <<"Python">> >>]

JobB ==
    [title |-> <<"Barista">>, company |-> <<"Cafe">>, location |-> <<"Remote">>,
     required_skills |-> <<>>]

\* the jobs _score_job is applied to
FnJobs == {JobA, JobB, [company |-> <<"Acme">>], [JobA EXCEPT !.location = <<"Boston">>]}

\* the profiles the functions are applied to
FnProfiles ==
    {ProfileA,
     [ProfileA EXCEPT !.desired_role = <<"Barista">>, !.location_preference = <<>>],
     [ProfileA EXCEPT !.desired_role = <<>>, !.skills = <<>>]}

InitFn ==
    /\ fn = [op |-> "none"]
    /\ AgentIdle
    /\ MainIdle

CallNormalizeJobData ==
    /\ fn.op = "none"
    /\ \E job \in AgentRawRecords, now \in Clock :
           fn' = [op |-> "_normalize_job_data", job |-> job, now |-> now,
                  result |-> NormalizeJobData(job, now)]
    /\ UNCHANGED <<agentVars, mainVars>>

\* the pre-score of the record _normalize_job_data has just returned
CallCalculateInitialScore ==
    /\ fn.op = "_normalize_job_data"
    /\ \E resume_data \in FnProfiles :
           fn' = [op |-> "_calculate_initial_score", job |-> fn.result,
                  resume_data |-> resume_data, now |-> fn.now,
                  scores |-> InitialSubScores(fn.result, resume_data, fn.now),
                  result |-> CalculateInitialScore(fn.result, resume_data, fn.now)]
    /\ UNCHANGED <<agentVars, mainVars>>

CallScoreJob ==
    /\ fn.op = "none"
    /\ \E job \in FnJobs, resume_data \in FnProfiles, preferences \in Feedbacks,
          response \in AgentScoreResponses :
           fn' = [op |-> "_score_job", job |-> job, resume_data |-> resume_data,
                  preferences |-> preferences, response |-> response,
                  result |-> ScoreJob(job, resume_data, preferences, response)]
    /\ UNCHANGED <<agentVars, mainVars>>

\* _normalize_job_data applied to the record it has just returned
CallNormalizeJobDataAgain ==
    /\ fn.op = "_normalize_job_data"
    /\ fn' = [op |-> "_normalize_job_data again", arg |-> fn.result, now |-> fn.now,
              result |-> NormalizeJobData(fn.result, fn.now)]
    /\ UNCHANGED <<agentVars, mainVars>>

\* raw records of either source, as standardize_job_data may be handed them
FnRawRecords ==
    LinkedInRecords \cup IndeedRecords
        \cup {[title |-> DataEngineer, company |-> <<"Initech">>,
               applicationLink |-> LinkedInUrl]}

\* the loop of search_jobs over a list: standardize_job_data on each record,
\* the None results left out
StandardizeAll(jobs) ==
    KeepStandardized([i \in 1..Len(jobs) |-> StandardizeJobData(jobs[i])])

CallStandardizeJobData ==
    /\ fn.op = "none"
    /\ \E jobs \in SeqsUpTo(FnRawRecords, MaxItems) :
           fn' = [op |-> "standardize_job_data", jobs |-> jobs,
                  result |-> StandardizeAll(jobs)]
    /\ UNCHANGED <<agentVars, mainVars>>

\* standardize_job_data applied to the list it has just produced
CallStandardizeJobDataAgain ==
    /\ fn.op = "standardize_job_data"
    /\ fn' = [op |-> "standardize_job_data again", arg |-> fn.result,
              result |-> StandardizeAll(fn.result)]
    /\ UNCHANGED <<agentVars, mainVars>>

\* the Indeed loop of search_jobs over a list
StandardizeAllIndeed(jobs) ==
    KeepStandardized([i \in 1..Len(jobs) |-> StandardizeIndeedJob(jobs[i])])

CallStandardizeIndeedJob ==
    /\ fn.op = "none"
    /\ \E jobs \in SeqsUpTo(IndeedRecords, MaxItems) :
           fn' = [op |-> "standardize_indeed_job", jobs |-> jobs,
                  result |-> StandardizeAllIndeed(jobs)]
    /\ UNCHANGED <<agentVars, mainVars>>

\* standardize_indeed_job applied to the list it has just produced
CallStandardizeIndeedJobAgain ==
    /\ fn.op = "standardize_indeed_job"
    /\ fn' = [op |-> "standardize_indeed_job again", arg |-> fn.result,
              result |-> StandardizeAllIndeed(fn.result)]
    /\ UNCHANGED <<agentVars, mainVars>>

\* the total_score of the i-th job of a ranked list whose third total is
\* last: 90, 70, last, and ever lower after it
RankedTotal(i, last) ==
    IF i = 1 THEN 9000 ELSE IF i = 2 THEN 7000 ELSE last - 10 * (i - 3)

\* a scored job as score_jobs leaves it; mentions says which skills its
\* description names: one of the known skills in turn, or none
RankedJob(i, last, mentions) ==
    [title |-> SoftwareEngineer, company |-> <<"Acme">>, location |-> NewYorkNY,
     description |-> IF mentions = "each"
                     THEN <<"Uses", " ">> \o CommonSkills[((i - 1) % Len(CommonSkills)) + 1]
                     ELSE <<>>,
     url |-> IF i % 2 = 1 THEN LinkedInUrl ELSE IndeedUrl,
     source |-> IF i % 2 = 1 THEN "LinkedIn" ELSE "Indeed",
     match_score |-> ScoresWithTotal(RankedTotal(i, last)),
     total_score |-> RankedTotal(i, last)]

\* the state format_results is applied to, for a list of scored jobs
FormatState(scored_jobs) ==
    Put(Put(WorkflowState([apifyApiToken |-> <<"token">>, openAiApiKey |-> <<"key">>,
                           resumeText |-> <<"resume">>]),
            "resume_info", Put(ResumeInfoA, "work_mode_preference", <<"Any">>)),
        "scored_jobs", scored_jobs)

CallFormatResults ==
    /\ fn.op = "none"
    /\ \E n \in 0..MaxScored, last \in {5000, 5100}, mentions \in {"each", "none"},
          push \in {"ok", "raise"}, now \in Clock :
           LET w == FormatState([i \in 1..n |-> RankedJob(i, last, mentions)])
           IN  fn' = [op |-> "format_results", state |-> w, push |-> push,
                      result |-> FormatResults(w, push, now).state["results"]]
    /\ UNCHANGED <<agentVars, mainVars>>

\* the states the relevance_scorer stage is applied to: with and without a
\* profile, listings and errors logged
ScorerInputs ==
    {[InitialState(<<"resume">>, <<>>) EXCEPT
          !.resume_parsed = TRUE, !.jobs_scraped = TRUE,
          !.resume_data = resume_data, !.job_listings = job_listings,
          !.error_log = error_log] :
        resume_data \in {None, ProfileA},
        job_listings \in SeqsUpTo({JobA, JobB}, 2),
        error_log \in SeqsUpTo({"job search failed"}, MaxLog)}

CallRelevanceScorerProcess ==
    /\ fn.op = "none"
    /\ \E s \in ScorerInputs :
           \E responses \in [1..Len(s.job_listings) -> AgentScoreResponses] :
               fn' = [op |-> "RelevanceScorerAgent.process", state |-> s,
                      responses |-> responses,
                      calls |-> RelevanceScorerCalls(s, responses),
                      result |-> RelevanceScorerProcess(s, responses)]
    /\ UNCHANGED <<agentVars, mainVars>>

\* the states the resume_parser stage is applied to: with and without a
\* resume text and errors logged
ParserInputs ==
    {[InitialState(resume_text, <<>>) EXCEPT !.error_log = error_log] :
        resume_text \in {<<>>, <<"resume">>},
        error_log \in SeqsUpTo({"job search failed"}, MaxLog)}

CallResumeParserProcess ==
    /\ fn.op = "none"
    /\ \E s \in ParserInputs, response \in ResumeResponses :
           fn' = [op |-> "ResumeParserAgent.process", state |-> s,
                  response |-> response,
                  result |-> ResumeParserProcess(s, response)]
    /\ UNCHANGED <<agentVars, mainVars>>

\* pre-scores on both sides of the threshold and on it, in millionths
FnInitialScores == {DETAIL_FETCH_THRESHOLD - 10000, DETAIL_FETCH_THRESHOLD, 700000}

\* all_jobs as the loop of process leaves it: the normalized records in the
\* order of the search, each with its initial_score (job_id is the position)
FnAllJobs ==
    UNION {{[i \in 1..n |-> [job_id |-> i, initial_score |-> scores[i]]] :
                scores \in [1..n -> FnInitialScores]} : n \in 0..MaxAllJobs}

CallPromisingJobs ==
    /\ fn.op = "none"
    /\ \E all_jobs \in FnAllJobs :
           fn' = [op |-> "promising_jobs", all_jobs |-> all_jobs,
                  result |-> PromisingJobs(all_jobs)]
    /\ UNCHANGED <<agentVars, mainVars>>

\* with_retry configured with and without its arguments, the wrapped
\* function failing and succeeding in every pattern
CallWithRetry ==
    /\ fn.op = "none"
    /\ \E max_attempts \in {<<>>} \cup {<<n>> : n \in 0..MaxTries},
          delay \in {<<>>, <<0>>, <<1>>},
          outcomes \in [1..Max(MaxTries, RETRY_ATTEMPTS) -> {"ok", "raise"}] :
           fn' = [op |-> "with_retry", max_attempts |-> max_attempts, delay |-> delay,
                  outcomes |-> outcomes,
                  result |-> WithRetry(max_attempts, delay, outcomes)]
    /\ UNCHANGED <<agentVars, mainVars>>

\* the locations and work modes _score_location_match is applied to
FnLocations ==
    {<<>>, NewYorkNY, <<"Remote">>, <<"Boston">>, <<"NY">>, <<"Remote", " ", "NY">>}

FnPreferredLocations == {<<>>, NewYorkNY, <<"Boston">>, <<"NY", ",">>}

WorkModes == {"Remote", "On-site", "Hybrid", "Any"}

CallScoreLocationMatch ==
    /\ fn.op = "none"
    /\ \E job_location \in FnLocations, preferred_location \in FnPreferredLocations,
          work_mode \in WorkModes :
           fn' = [op |-> "_score_location_match", job_location |-> job_location,
                  preferred_location |-> preferred_location, work_mode |-> work_mode,
                  result |-> ScoreLocationMatch(job_location, preferred_location,
                                                work_mode)]
    /\ UNCHANGED <<agentVars, mainVars>>

\* scored jobs for _extract_common_skills: what matters is required_skills
FnSkillJobs ==
    {[title |-> SoftwareEngineer, required_skills |-> skills] :
        skills \in {<<>>, << <<"Python">> >>, << <<"SQL">> >>,
                    << <<"SQL">>, <<"Python">> >>}}
        \cup {[title |-> SoftwareEngineer]}

CallExtractCommonSkills ==
    /\ fn.op = "none"
    /\ \E jobs \in SeqsUpTo(FnSkillJobs, MaxRaw) :
           fn' = [op |-> "_extract_common_skills", jobs |-> jobs,
                  result |-> ExtractCommonSkills(jobs)]
    /\ UNCHANGED <<agentVars, mainVars>>

\* the titles and roles _score_position_match is applied to
FnTitles ==
    {<<>>, SoftwareEngineer, <<"Senior", " ", "Software", " ", "Engineer">>,
     <<"Senior", " ", "Engineer">>, <<"Engineer">>, <<"Barista">>}

CallScorePositionMatch ==
    /\ fn.op = "none"
    /\ \E job_title \in FnTitles, desired_role \in FnTitles :
           fn' = [op |-> "_score_position_match", job_title |-> job_title,
                  desired_role |-> desired_role,
                  result |-> ScorePositionMatch(job_title, desired_role)]
    /\ UNCHANGED <<agentVars, mainVars>>

NextFn ==
    \/ CallNormalizeJobData
    \/ CallCalculateInitialScore
    \/ CallScoreJob
    \/ CallNormalizeJobDataAgain
    \/ CallStandardizeJobData
    \/ CallStandardizeJobDataAgain
    \/ CallStandardizeIndeedJob
    \/ CallStandardizeIndeedJobAgain
    \/ CallFormatResults
    \/ CallRelevanceScorerProcess
    \/ CallResumeParserProcess
    \/ CallPromisingJobs
    \/ CallWithRetry
    \/ CallScoreLocationMatch
    \/ CallExtractCommonSkills
    \/ CallScorePositionMatch

SpecFn == InitFn /\ [][NextFn]_vars

----------------------------------------------------------------------------
(* The coordinator on a snapshot: a caller hands ManagerAgent any          *)
(* workflow-state dict (a run resumed from a saved state).                 *)

OneListing ==
    [job_id |-> <<"1">>, title |-> SoftwareEngineer, company |-> <<"Acme">>,
     location |-> NewYorkNY, url |-> LinkedInUrl, source |-> "LinkedIn",
     posted_date |-> DateTime(0 - 1, FALSE), initial_score |-> 1000000]

Snapshots ==
    {[resume_text |-> <<"resume">>,
      resume_parsed |-> f[1],
      jobs_scraped |-> f[2],
      analysis_complete |-> f[3],
      feedback_processed |-> f[4],
      notification_sent |-> f[5],
      current_phase |-> "init",
      next_step |-> step,
      resume_data |-> resume_data,
      resume_summary |-> None,
      job_listings |-> listings,
      scored_listings |-> [i \in 1..Len(scored) |->
                              Put(scored[i], "total_score", 9000)],
      feedback |-> <<>>,
      error_log |-> error_log] :
        f \in [1..5 -> BOOLEAN],
        step \in {"resume_parser", "notification"},
        resume_data \in {None, ProfileA},
        listings \in {<<>>, <<OneListing>>},
        scored \in {<<>>, <<OneListing>>},
        error_log \in SeqsUpTo({"job search failed"}, MaxLog)}

InitSnapshot ==
    /\ state \in Snapshots
    /\ pc = "snapshot"
    /\ exc = "none"
    /\ ran = <<>>
    /\ MainIdle
    /\ FnIdle

CallDetermineNextStep ==
    /\ pc \in {"snapshot", "determined"}
    /\ state' = DetermineNextStep(state)
    /\ pc' = "determined"
    /\ UNCHANGED <<exc, ran, wf, mpc, env, logs, calls, fn>>

CallManagerProcess ==
    /\ pc \in {"snapshot", "determined"}
    /\ state' = ManagerProcess(state)
    /\ pc' = "determined"
    /\ UNCHANGED <<exc, ran, wf, mpc, env, logs, calls, fn>>

NextSnapshot == CallDetermineNextStep \/ CallManagerProcess

SpecSnapshot == InitSnapshot /\ [][NextSnapshot]_vars

----------------------------------------------------------------------------
(* The coordinator's claims.                                               *)

\* the fixed order of the stages, each with its completion flag
StageOrder ==
    << <<"resume_parsed", "resume_parser">>,
       <<"jobs_scraped", "job_scraper">>,
       <<"analysis_complete", "relevance_scorer">>,
       <<"feedback_processed", "feedback_refiner">>,
       <<"notification_sent", "notification">> >>

Flags == {StageOrder[i][1] : i \in 1..Len(StageOrder)}

FiveStages == [i \in 1..Len(StageOrder) |-> StageOrder[i][2]]

Unset(s) == {i \in 1..Len(StageOrder) : ~Flag(s, StageOrder[i][1])}

\* the stage of the least unset flag of the order, "complete" when none is unset
ExpectedStep(s) ==
    IF Unset(s) = {} THEN "complete"
    ELSE StageOrder[CHOOSE i \in Unset(s) : \A j \in Unset(s) : i <= j][2]

\* C3: with an empty error log, determine_next_step names the stage of the
\* first unset flag in the fixed order, and "complete" exactly when all five
\* flags are set, for every combination of flags.
C3_FirstUnsetStage ==
    (pc = "determined" /\ ~HasErrors(state)) =>
        /\ state.next_step = ExpectedStep(state)
        /\ (state.next_step = "complete") <=> (\A f \in Flags : Flag(state, f))

\* a snapshot with a later flag set and an earlier one unset, coordinated
C3_Witness ==
    /\ pc = "determined"
    /\ ~HasErrors(state)
    /\ state.resume_parsed /\ ~state.jobs_scraped /\ state.analysis_complete
    /\ state.next_step = "job_scraper"

\* C4: with an entry in the error log the coordinator sets next_step to
\* "complete" whatever the flags, and changes no flag and no partial result.
C4_ErrorsShortCircuit ==
    [][HasErrors(state) =>
          /\ state'.next_step = "complete"
          /\ \A k \in Flags \cup {"job_listings", "scored_listings", "error_log",
                                  "resume_data"} : state'[k] = state[k]]_vars

\* a snapshot with errors, unset flags and partial results, coordinated
C4_Witness ==
    /\ pc = "determined"
    /\ HasErrors(state)
    /\ ~state.resume_parsed /\ state.jobs_scraped
    /\ state.job_listings # <<>>
    /\ state.next_step = "complete"

IsPrefix(s, t) == Len(s) <= Len(t) /\ \A i \in 1..Len(s) : s[i] = t[i]

\* how far the run is: two per stage invoked, one more once the coordinator
\* has named the next stage
Progress == 2 * Len(ran) + (IF pc \in {"stage", "done"} THEN 1 ELSE 0)

\* C5: from the initial state the run invokes the five stages in the fixed
\* order, each once, and reaches next_step = "complete", where it stays,
\* unless a stage raises: the stages invoked are always a prefix of the
\* order; "complete" is named only after all five; once named it stays
\* named; until then the run can always take a step, and every step is
\* progress, of which there is at most 2 * 5 + 1.
C5_RunCompletesInOrder ==
    /\ [](IsPrefix(ran, FiveStages))
    /\ [](state.next_step = "complete" => ran = FiveStages)
    /\ [][state.next_step = "complete" => state'.next_step = "complete"]_vars
    /\ [](pc \in {"manager", "stage"} => ENABLED <<Next>>_vars)
    /\ [](pc = "done" => state.next_step = "complete")
    /\ [][pc # "done" => Progress' > Progress]_vars

\* a run that ended with all five stages invoked
C5_Witness ==
    /\ pc = "done"
    /\ ran = FiveStages
    /\ state.next_step = "complete"
    /\ state.current_phase = "complete"

----------------------------------------------------------------------------
(* Detail scoring and ranking.                                             *)

TotalScore(job) == Get(job, "total_score", 0)

InRange100(total) == 0 <= total /\ total <= 10000

\* C1: with a reasoning service that answers invalid JSON, _score_job does
\* not raise, whatever the job and the profile: it returns the result of
\* _manual_score_job, whose total_score is in [0,100] and in which every
\* category has a non-empty explanation.
C1_FallbackNeverRaises ==
    (fn.op = "_score_job" /\ fn.response.kind = "invalid") =>
        /\ ~fn.result.raised
        /\ fn.result = ManualScoreJob(fn.job, fn.resume_data, fn.preferences)
        /\ InRange100(fn.result.value.total_score)
        /\ \A c \in DOMAIN fn.result.value.score_breakdown :
               /\ c \in DOMAIN fn.result.value.match_details
               /\ fn.result.value.match_details[c] # <<>>

\* the job of state["jobs"] is in the list, with a score
PresentWithScore(job, scored) ==
    \E k \in 1..Len(scored) :
        /\ Has(scored[k], "total_score")
        /\ \A f \in DOMAIN job : Has(scored[k], f) /\ scored[k][f] = job[f]

\* an answer of the agents' reasoning service that process can use
UsableAnswer(response) ==
    /\ response.kind = "json"
    /\ Has(response.value, "total_score")
    /\ Has(response.value, "score_breakdown")
    /\ Has(response.value, "match_details")

\* C2: a failure while scoring one job of a batch (the reasoning call
\* raises, or its response is unusable) does not abort the batch: every job
\* whose own scoring went through is in the scored list with a score, in
\* score_jobs' scored_jobs and in the relevance_scorer stage's
\* scored_listings, and that stage returns.
C2_FailureDoesNotAbortBatch ==
    /\ (mpc = "format_results") =>
           \A i \in 1..Len(wf["jobs"]) :
               (env.responses[i].kind = "json") =>
                   PresentWithScore(wf["jobs"][i], wf["scored_jobs"])
    /\ (/\ pc \in {"manager", "crashed"}
        /\ ran # <<>> /\ ran[Len(ran)] = "relevance_scorer"
        /\ state.resume_data # None) =>
           \A i \in 1..Len(state.job_listings) :
               UsableAnswer(env.responses[i]) =>
                   /\ pc # "crashed"
                   /\ PresentWithScore(state.job_listings[i], state.scored_listings)

\* the ranked list of the program that runs, once detail scoring has returned
Ranked ==
    IF mpc \in {"format_results", "push_results", "finished"} THEN wf["scored_jobs"]
    ELSE IF pc \in {"manager", "stage", "done"} THEN state.scored_listings
    ELSE <<>>

\* the list the sort was applied to in the step that has just ranked
PreSort ==
    IF mpc = "format_results"
    THEN Flatten([i \in 1..Len(wf["jobs"]) |->
                     ScoredJobsFor(wf["jobs"][i], env.responses[i])])
    ELSE [i \in 1..Len(state.job_listings) |->
             ScoredJob(state.job_listings[i], state.resume_data, state.feedback,
                       env.responses[i]).value]

\* the step that has just returned is one that ranked a list
JustRanked ==
    \/ mpc = "format_results" /\ \A i \in 1..Len(wf["jobs"]) : env.responses[i].kind # "raise"
    \/ /\ pc = "manager" /\ ran # <<>> /\ ran[Len(ran)] = "relevance_scorer"
       /\ state.resume_data # None /\ state.job_listings # <<>>

\* C6: the ranked list is sorted by total_score in non-increasing order.
C6_RankedListSorted ==
    \A i \in 1..(Len(Ranked) - 1) : TotalScore(Ranked[i]) >= TotalScore(Ranked[i + 1])

\* an actor run whose scored jobs came out of the loop in another order
C6_Witness ==
    /\ mpc = "format_results"
    /\ JustRanked
    /\ Len(Ranked) >= 2
    /\ TotalScore(Ranked[1]) > TotalScore(Ranked[Len(Ranked)])
    /\ TotalScore(PreSort[1]) < TotalScore(PreSort[Len(PreSort)])

\* the entries of a list with this total_score, in the list's order
WithTotal(list, total) == SelectSeq(list, LAMBDA job : TotalScore(job) = total)

\* C7: ranking is stable: the jobs with one total_score are in the ranked
\* list in the order they had in the list that was sorted.
C7_RankingStable ==
    JustRanked =>
        \A job \in Range(PreSort) :
            WithTotal(Ranked, TotalScore(job)) = WithTotal(PreSort, TotalScore(job))

\* an actor run in which two different records of one total_score came out
\* of the loop behind a record of a lower one
C7_Witness ==
    /\ mpc = "format_results"
    /\ JustRanked
    /\ Len(Ranked) = 3
    /\ TotalScore(PreSort[1]) < TotalScore(PreSort[2])
    /\ TotalScore(PreSort[2]) = TotalScore(PreSort[3])
    /\ PreSort[2] # PreSort[3]
    /\ Ranked = <<PreSort[2], PreSort[3], PreSort[1]>>

\* C8: every total_score score_jobs attaches to a job is in [0,100].
C8_TotalScoreInRange ==
    Has(wf, "scored_jobs") =>
        \A i \in 1..Len(wf["scored_jobs"]) : InRange100(wf["scored_jobs"][i]["total_score"])

----------------------------------------------------------------------------
(* Normalization and pre-scoring.                                          *)

InUnit(milli) == 0 <= milli /\ milli <= 1000

\* C9: for every normalized record and profile _calculate_initial_score
\* returns, without raising, a value in [0,1], each of the four sub-scores
\* being in [0,1]; the records include those whose posting date was parsed
\* from a string with a timezone, and those dated in the future.
C9_PreScoreInUnitRange ==
    (fn.op = "_calculate_initial_score") =>
        /\ ~fn.result.raised
        /\ 0 <= fn.result.value /\ fn.result.value <= 1000000
        /\ \A k \in DOMAIN fn.scores.value : InUnit(fn.scores.value[k])

\* C10: a raw record without a non-empty title and company is excluded by
\* the normalizer, and no record without both reaches the pre-score, the
\* detail score or the output: the listings the job_scraper stage hands to
\* detail scoring, and the scored listings, all have both.
C10_NoRecordWithoutTitleAndCompany ==
    (pc # "idle") =>
        \A job \in Range(state.job_listings) \cup Range(state.scored_listings) :
            /\ Get(job, "title", <<>>) # <<>>
            /\ Get(job, "company", <<>>) # <<>>

----------------------------------------------------------------------------
(* The normalizers applied twice.                                          *)

\* C11: normalization is idempotent: a normalizer applied to what it has
\* produced returns its input, field by field, the source and the url
\* included; this for standardize_job_data and standardize_indeed_job on
\* lists and for _normalize_job_data on a record.
C11_NormalizationIdempotent ==
    (fn.op \in {"standardize_job_data again", "standardize_indeed_job again",
                "_normalize_job_data again"}) =>
        fn.result = fn.arg

----------------------------------------------------------------------------
(* Failing job sources.                                                    *)

\* the log entries search_jobs writes for a source that failed
SourceFailureLogs ==
    {"LinkedIn search failed", "Error processing LinkedIn dataset",
     "Indeed search failed", "Error processing Indeed dataset"}

\* a record of this title and company is among the jobs
Listed(title, company, jobs) ==
    \E k \in 1..Len(jobs) : jobs[k]["title"] = title /\ jobs[k]["company"] = company

\* search_jobs has returned: each failed source is logged, and the records
\* of a source that answered are used
C12_MainSearchSurvives ==
    (mpc = "score_jobs") =>
        /\ Cardinality({i \in 1..Len(logs) : logs[i] \in SourceFailureLogs})
               = (IF env.linkedin.failed THEN 1 ELSE 0) + (IF env.indeed.failed THEN 1 ELSE 0)
        /\ (env.linkedin.failed /\ env.indeed.failed) => wf["jobs"] = <<>>
        /\ ~env.linkedin.failed =>
               \A i \in 1..Len(env.linkedin.items) :
                   (StandardizeJobData(env.linkedin.items[i]) # None) =>
                       Listed(StandardizeJobData(env.linkedin.items[i]).title,
                              StandardizeJobData(env.linkedin.items[i]).company, wf["jobs"])
        /\ ~env.indeed.failed =>
               \A i \in 1..Len(env.indeed.items) :
                   (Get(env.indeed.items[i], "positionName", <<>>) # <<>>
                    /\ Get(env.indeed.items[i], "company", <<>>) # <<>>) =>
                       Listed(env.indeed.items[i]["positionName"],
                              env.indeed.items[i]["company"], wf["jobs"])

\* C12: a failing job source (the actor call raising or timing out, its
\* dataset unreadable) never propagates as an exception: the search stage
\* completes, counts the source as empty, uses the other source's records
\* and logs the failure; so search_jobs always returns in this way, and the
\* job_scraper stage never ends with the actor's exception.
C12_SourceFailureContained ==
    /\ C12_MainSearchSurvives
    /\ ~(pc = "crashed" /\ ran # <<>> /\ ran[Len(ran)] = "job_scraper"
         /\ exc = "ActorError")

----------------------------------------------------------------------------
(* Input validation.                                                       *)

\* C13: with the resume text missing or empty the run ends with a
\* validation failure, and no external service (reasoning service, job
\* source, platform storage or dataset) was called before it: main() has
\* done no more than read its input, and the resume_parser stage raises
\* ValueError as its first act.
C13_ValidationBeforeExternalCalls ==
    /\ (Has(env, "input") /\ Get(env.input, "resumeText", <<>>) = <<>>) =>
           /\ mpc = "failed"
           /\ logs = <<"Actor failed">>
           /\ \A i \in 1..Len(calls) : calls[i] = "get_input"
    /\ (pc # "idle" /\ state.resume_text = <<>> /\ ran # <<>>) =>
           /\ ran = <<"resume_parser">>
           /\ pc = "crashed"
           /\ exc = "ValueError"

----------------------------------------------------------------------------
(* The output object of format_results.                                    *)

\* C14: whatever the number of scored jobs, the results array has at most
\* 10 entries, exactly min(10, totalJobsFound), which are the highest-ranked
\* jobs in rank order, and topSkillsRequested has at most 5 entries.
C14_OutputCaps ==
    (fn.op = "format_results") =>
        LET results == fn.result["results"]
            statistics == fn.result["statistics"]
            scored_jobs == fn.state["scored_jobs"]
        IN  /\ Len(results) <= 10
            /\ Len(results) = Min(10, statistics["totalJobsFound"])
            /\ \A i \in 1..Len(results) :
                   /\ results[i]["matchScore"] = scored_jobs[i]["total_score"]
                   /\ results[i]["applicationUrl"] = scored_jobs[i]["url"]
            /\ Len(Get(statistics, "topSkillsRequested", <<>>)) <= 5

\* more than 10 scored jobs naming more than 5 skills, formatted
C14_Witness ==
    /\ fn.op = "format_results"
    /\ Len(fn.state["scored_jobs"]) > 10
    /\ fn.result["statistics"]["totalJobsFound"] = Len(fn.state["scored_jobs"])
    /\ Len(fn.result["results"]) = 10
    /\ Len(AllSkills(fn.state["scored_jobs"])) > 5
    /\ Len(fn.result["statistics"]["topSkillsRequested"]) = 5

\* C15: averageMatchScore is the arithmetic mean of total_score over all the
\* scored jobs (70.0 for 90, 70, 50); for an empty list no exception is
\* raised and the statistics are totalJobsFound = 0, averageMatchScore = 0
\* and topSkillsRequested = [].
C15_AverageIsMean ==
    (fn.op = "format_results") =>
        LET statistics == fn.result["statistics"]
            scored_jobs == fn.state["scored_jobs"]
        IN  /\ Has(statistics, "averageMatchScore")
            /\ statistics["averageMatchScore"] * Len(scored_jobs) = SumTotals(scored_jobs)
            /\ (scored_jobs = <<>>) =>
                   /\ statistics["totalJobsFound"] = 0
                   /\ statistics["averageMatchScore"] = 0
                   /\ Has(statistics, "topSkillsRequested")
                   /\ statistics["topSkillsRequested"] = <<>>

----------------------------------------------------------------------------
(* The empty-input policy of the relevance_scorer stage.                   *)

\* C16: with the candidate profile missing or the job list empty, the
\* stage calls no external service, sets the scored list to empty, marks
\* analysis_complete, appends nothing to the error log and returns normally.
C16_EmptyInputPolicy ==
    (/\ fn.op = "RelevanceScorerAgent.process"
     /\ (fn.state.resume_data = None \/ fn.state.job_listings = <<>>)) =>
        /\ ~fn.result.raised
        /\ fn.calls = <<>>
        /\ fn.result.value.scored_listings = <<>>
        /\ fn.result.value.analysis_complete
        /\ fn.result.value.error_log = fn.state.error_log

\* the stage applied to a state with listings and no profile
C16_Witness ==
    /\ fn.op = "RelevanceScorerAgent.process"
    /\ fn.state.resume_data = None
    /\ Len(fn.state.job_listings) = 2
    /\ fn.responses[1].kind = "json"
    /\ ~fn.result.raised
    /\ fn.result.value.analysis_complete

----------------------------------------------------------------------------
(* The worked example of the deterministic scorer.                         *)

\* the stage applied to the example: profile A, the barista job listed before
\* the engineer job, every answer of the llm no JSON (deterministic scoring)
ExampleApplied ==
    /\ fn.op = "RelevanceScorerAgent.process"
    /\ fn.state.resume_data = ProfileA
    /\ fn.state.job_listings = <<JobB, JobA>>
    /\ \A i \in 1..2 : fn.responses[i] = LlmInvalid

\* C17: for the profile (Software Engineer; Python, SQL; New York, NY), job A
\* (Software Engineer at Acme, New York, NY, requiring Python) and job B
\* (Barista at Cafe, Remote, requiring nothing), the deterministic scorer
\* gives A a position_match of 1.0 and a skills_match of 1.0 and a
\* total_score strictly greater than B's, so that A is ranked above B.
C17_ExampleRanking ==
    ExampleApplied =>
        /\ ~fn.result.raised
        /\ LET scored == fn.result.value.scored_listings
           IN  /\ Len(scored) = 2
               /\ scored[1].title = JobA.title
               /\ scored[2].title = JobB.title
               /\ scored[1].score_breakdown.position_match = 10000
               /\ scored[1].score_breakdown.skills_experience = 10000
               /\ TotalScore(scored[1]) > TotalScore(scored[2])

----------------------------------------------------------------------------
(* The fallback from semantic to deterministic scoring.                    *)

\* the keys of a score record, semantic or deterministic
ScoreRecordKeys == {"total_score", "score_breakdown", "match_details"}

\* the scored job holds a field that is neither the job's nor a score's
Flagged(scored, job) ==
    \E k \in DOMAIN scored : k \notin (DOMAIN job \cup ScoreRecordKeys)

\* C18: when the answer of the reasoning service for a job is no well-formed
\* JSON, the semantic call is made at most twice (one retry), the job is
\* then scored by the deterministic strategy, and the scored record carries
\* a flag that tells a fallback result from a semantic one.
C18_FallbackObservable ==
    (/\ fn.op = "RelevanceScorerAgent.process"
     /\ fn.state.resume_data # None
     /\ Len(fn.state.job_listings) = 1
     /\ fn.responses[1] = LlmInvalid) =>
        /\ Len(fn.calls) <= 2
        /\ ~fn.result.raised
        /\ LET scored == fn.result.value.scored_listings
           IN  /\ Len(scored) = 1
               /\ Flagged(scored[1], fn.state.job_listings[1])

----------------------------------------------------------------------------
(* Logging of the errors a stage recovers from.                            *)

\* the stage returned normally with more entries in error_log than it found
LogGrew == Len(fn.result.value.error_log) > Len(fn.state.error_log)

\* C19: every non-fatal error a stage catches and recovers from produces a
\* log entry: a stage that has met a malformed answer of the reasoning
\* service and returned normally has recorded an entry.
C19_RecoveredErrorsLogged ==
    /\ (/\ fn.op = "ResumeParserAgent.process"
        /\ fn.response = LlmInvalid
        /\ ~fn.result.raised) => LogGrew
    /\ (/\ fn.op = "RelevanceScorerAgent.process"
        /\ ~EmptyInput(fn.state.resume_data, fn.state.job_listings)
        /\ \E i \in 1..Len(fn.responses) : fn.responses[i] = LlmInvalid
        /\ ~fn.result.raised) => LogGrew

----------------------------------------------------------------------------
(* The threshold filter before the detail fetch.                           *)

\* the records of all_jobs at or above the threshold
Qualifying(all_jobs) ==
    {i \in 1..Len(all_jobs) : all_jobs[i].initial_score >= DETAIL_FETCH_THRESHOLD}

\* a is preferred to b: a higher pre-score, or the same and earlier in the list
Preferred(a, b) ==
    \/ a.initial_score > b.initial_score
    \/ a.initial_score = b.initial_score /\ a.job_id < b.job_id

----------------------------------------------------------------------------
(* The bounded-retry policy.                                               *)

\* the configured value of an optional argument: the one given, else the setting
Configured(opt, setting) == IF opt = <<>> THEN setting ELSE opt[1]

\* the first attempt among the first n that succeeds, 0 when there is none
FirstOk(outcomes, n) ==
    IF \E i \in 1..n : outcomes[i] = "ok"
    THEN CHOOSE i \in 1..n : outcomes[i] = "ok" /\ \A j \in 1..(i - 1) : outcomes[j] # "ok"
    ELSE 0

\* C21: every call to an external collaborator runs under the bounded-retry
\* policy: at most the configured number of attempts, the configured delay
\* between attempts, the first success returned without further attempts,
\* the failure propagated after the last failed attempt, with the configured
\* count and delay used also when they are 0; the reasoning service is
\* called under the policy like the actors.
C21_BoundedRetry ==
    /\ fn.op = "with_retry" =>
           LET n == Configured(fn.max_attempts, RETRY_ATTEMPTS)
               d == Configured(fn.delay, RETRY_DELAY)
               k == FirstOk(fn.outcomes, n)
               r == fn.result
           IN  /\ r.calls <= n
               /\ \A i \in 1..Len(r.sleeps) : r.sleeps[i] = d
               /\ k > 0 => /\ r.result = Return("ok")
                           /\ r.calls = k
                           /\ Len(r.sleeps) = k - 1
               /\ (k = 0 /\ n > 0) => /\ r.result = Raise("ActorError")
                                      /\ r.calls = n
    /\ (/\ fn.op = "RelevanceScorerAgent.process"
        /\ fn.state.resume_data # None
        /\ Len(fn.state.job_listings) = 1
        /\ fn.responses[1] = LlmRaises) => Len(fn.calls) = RETRY_ATTEMPTS

----------------------------------------------------------------------------
(* The configured category weights of detail scoring.                      *)

\* the six categories of detail scoring
SixCategories ==
    {"position_match", "skills_experience", "location",
     "company_match", "salary_match", "benefits"}

RECURSIVE SumOver(_, _)
SumOver(w, keys) ==
    IF keys = {} THEN 0
    ELSE LET k == CHOOSE k \in keys : TRUE
         IN  w[k] + SumOver(w, keys \ {k})

\* C22: the configured weights of detail scoring are keyed by exactly the
\* six categories and sum to 1.0 (100 hundredths); no job is scored under a
\* configuration that is not so.
C22_WeightsValidated ==
    fn.op = "_score_job" =>
        /\ DOMAIN FINAL_SCORING_WEIGHTS = SixCategories
        /\ SumOver(FINAL_SCORING_WEIGHTS, DOMAIN FINAL_SCORING_WEIGHTS) = 100

----------------------------------------------------------------------------
(* The deterministic location score (in thousandths).                      *)

\* C23 as stated: for every job location, preferred location and work mode
\* in {Remote, On-site, Hybrid, Any}, the location_match score is one of
\* 1.0, 0.8, 0.5 or 0.4.
C23_LocationScoreValues ==
    fn.op = "_score_location_match" => fn.result \in {1000, 800, 500, 400}

\* the preferred location is given and is found whole (full) or by one of
\* its comma-separated parts (partial) in the job location, case-insensitively
FullLocationMatch ==
    /\ fn.preferred_location # <<>>
    /\ Contains(Lower(fn.job_location), Lower(fn.preferred_location))

PartialLocationMatch ==
    /\ fn.preferred_location # <<>>
    /\ \E part \in Range(SplitOn(Lower(fn.preferred_location), ",")) :
           Contains(Lower(fn.job_location), Strip(part))

\* C23 amended: the score is one of 1.0, 0.8, 0.7, 0.5 or 0.4: 0.5 exactly
\* when the job location is empty; 1.0 exactly when it is not and either the
\* mode is Remote and the job location mentions "remote", or the mode is
\* another one and the preferred location is a substring of the job
\* location; 0.8 exactly when, in a mode other than Remote, only a
\* comma-separated part of the preferred location is found; 0.7 exactly
\* when the mode is Any and no location is preferred; 0.4 otherwise.
C23_LocationScoreCases ==
    fn.op = "_score_location_match" =>
        LET remote == fn.work_mode = "Remote"
                          /\ Contains(Lower(fn.job_location), <<"remote">>)
            placed == fn.work_mode # "Remote"
        IN  /\ fn.result \in {1000, 800, 700, 500, 400}
            /\ fn.result = 500 <=> fn.job_location = <<>>
            /\ fn.result = 1000 <=>
                   (fn.job_location # <<>> /\ (remote \/ (placed /\ FullLocationMatch)))
            /\ fn.result = 800 <=>
                   (fn.job_location # <<>> /\ placed /\ ~FullLocationMatch
                    /\ PartialLocationMatch)
            /\ fn.result = 700 <=>
                   (fn.job_location # <<>> /\ fn.work_mode = "Any"
                    /\ fn.preferred_location = <<>>)

\* the "Any" mode without a preferred location, scored 0.7
C23_Witness ==
    /\ fn.op = "_score_location_match"
    /\ fn.work_mode = "Any"
    /\ fn.preferred_location = <<>>
    /\ fn.job_location = <<"Boston">>
    /\ fn.result = 700

----------------------------------------------------------------------------
(* The top-skills statistic.                                               *)

\* the skills of the inputs in alphabetical order
Alphabetical == << <<"Python">>, <<"SQL">> >>

AlphabeticalRank(skill) == CHOOSE i \in 1..Len(Alphabetical) : Alphabetical[i] = skill

\* how many times the jobs mention the skill
Mentions(jobs, skill) ==
    Cardinality({<<i, j>> \in (1..Len(jobs)) \X (1..2) :
                    /\ j <= Len(Get(jobs[i], "required_skills", <<>>))
                    /\ Get(jobs[i], "required_skills", <<>>)[j] = skill})

\* C24: the top-skills statistic lists the skills by the number of jobs that
\* mention them, highest count first, skills of equal count in alphabetical
\* order; so it depends on the multiset of jobs only, not on their order.
C24_TopSkillsOrder ==
    fn.op = "_extract_common_skills" =>
        /\ \A i \in 1..Len(fn.result) :
               fn.result[i].count = Mentions(fn.jobs, fn.result[i].skill)
        /\ \A i \in 1..Len(fn.result) : \A j \in (i + 1)..Len(fn.result) :
               \/ fn.result[i].count > fn.result[j].count
               \/ /\ fn.result[i].count = fn.result[j].count
                  /\ AlphabeticalRank(fn.result[i].skill)
                         < AlphabeticalRank(fn.result[j].skill)

----------------------------------------------------------------------------
(* Source attribution.                                                     *)

\* the LinkedIn actor supplied the record the job was standardized from
SuppliedByLinkedIn(job) ==
    /\ ~env.linkedin.failed
    /\ \E i \in 1..Len(env.linkedin.items) : StandardizeJobData(env.linkedin.items[i]) = job

\* the source the job is to carry: LinkedIn for a linkedin.com URL, else the
\* tag of the actor that supplied it
AttributedSource(job) ==
    IF Contains(job.url, <<"linkedin", ".com">>) \/ SuppliedByLinkedIn(job)
    THEN "LinkedIn" ELSE "Indeed"

\* C25: the source of a normalized record is LinkedIn exactly when its
\* resolved URL contains "linkedin.com", and otherwise the tag of the
\* collaborator that supplied the record.
C25_SourceAttribution ==
    mpc = "score_jobs" =>
        \A i \in 1..Len(wf["jobs"]) : wf["jobs"][i].source = AttributedSource(wf["jobs"][i])

----------------------------------------------------------------------------
(* score_jobs keeps the jobs.                                              *)

\* the entries of scored_jobs made from the job (the job with its scores)
ScoredFrom(job, scored_jobs) ==
    {k \in 1..Len(scored_jobs) :
        \A f \in DOMAIN job : Has(scored_jobs[k], f) /\ scored_jobs[k][f] = job[f]}

\* C26: score_jobs having returned, every reasoning call having answered,
\* each job of state["jobs"] is in state["scored_jobs"] exactly once and the
\* two lists have the same length, whatever failed in parsing an answer or
\* in pushing a job_score charge event.
C26_EveryJobScoredOnce ==
    (/\ mpc = "format_results"
     /\ \A i \in 1..Len(env.responses) : env.responses[i].kind # "raise") =>
        /\ Len(wf["scored_jobs"]) = Len(wf["jobs"])
        /\ \A i \in 1..Len(wf["jobs"]) :
               Cardinality(ScoredFrom(wf["jobs"][i], wf["scored_jobs"]))
                   = Cardinality({j \in 1..Len(wf["jobs"]) : wf["jobs"][j] = wf["jobs"][i]})

----------------------------------------------------------------------------
(* format_results and its charge event.                                    *)

\* the keys of the statistics of a results object
StatisticsKeys == {"totalJobsFound", "averageMatchScore", "topSkillsRequested", "timestamp"}

\* C27: in format_results a failure of the results_summary charge event
\* does not change the results object built and stored before it: the
\* returned results are those of the run without the failure, with the
\* ranked jobs (the first ten) and the full statistics.
C27_ChargeFailureKeepsResults ==
    (fn.op = "format_results" /\ fn.push = "raise") =>
        /\ \E now \in Clock : fn.result = FormatResults(fn.state, "ok", now).state["results"]
        /\ Len(fn.result.results) = Min(10, Len(fn.state["scored_jobs"]))
        /\ DOMAIN fn.result.statistics = StatisticsKeys

----------------------------------------------------------------------------
(* The completion flags.                                                   *)

\* the flag of the stage
OwnFlag(stage) ==
    StageOrder[CHOOSE i \in 1..Len(StageOrder) : StageOrder[i][2] = stage][1]

----------------------------------------------------------------------------
(* What the job_scraper stage hands to detail scoring.                     *)

\* the keys of a record of _normalize_job_data, pre-scored
NormalizedKeys ==
    {"job_id", "title", "company", "location", "url", "source", "posted_date",
     "initial_score"}

\* C29: JobScraperAgent.process having returned, job_listings holds at most
\* max_details_to_fetch records, each a normalized record with an
\* initial_score of at least detail_fetch_threshold, whether the detail
\* fetch returned anything or not.
C29_ListingsArePromising ==
    (pc = "manager" /\ ran # <<>> /\ ran[Len(ran)] = "job_scraper") =>
        /\ Len(state.job_listings) <= MAX_DETAILS_TO_FETCH
        /\ \A i \in 1..Len(state.job_listings) :
               /\ NormalizedKeys \subseteq DOMAIN state.job_listings[i]
               /\ state.job_listings[i].initial_score >= DETAIL_FETCH_THRESHOLD

----------------------------------------------------------------------------
(* The deterministic position score (in thousandths).                      *)

\* the whitespace-separated words the title and the role share, case ignored
SharedWords == Words(Lower(fn.job_title)) \cap Words(Lower(fn.desired_role))

\* C30: for a non-empty title and a non-empty role the position_match score
\* is in [0.4, 1.0], and a title that shares at least one word with the role
\* scores no lower than a title that shares none (0.4).
C30_PositionScoreFloor ==
    (/\ fn.op = "_score_position_match"
     /\ fn.job_title # <<>>
     /\ fn.desired_role # <<>>) =>
        /\ 400 <= fn.result /\ fn.result <= 1000
        /\ SharedWords = {} => fn.result = 400
        /\ SharedWords # {} => fn.result >= 400

====
